---- MODULE Spec2Model ----
(***************************************************************************)
(* Model of the lineup sequencing engine of dizqueTV-python:               *)
(* dizqueTV/helpers.py (ordering strategies, time-box extraction, flex     *)
(* time) and dizqueTV/models/channels.py (Channel operations that persist  *)
(* a new lineup).                                                          *)
(*                                                                         *)
(* A media item is a record.  "id" is the Python object identity (the      *)
(* classes define no __eq__, so "in" and "==" compare identity), "cls" is  *)
(* the Python class.  An attribute whose value is None is modelled by     *)
(* None (-1) for numbers and titles and by "none" for the type string.     *)
(* Titles and rating keys are modelled by their rank in string order, so   *)
(* comparing ranks is comparing the strings; rating key 0 is the empty     *)
(* string.                                                                 *)
(***************************************************************************)
EXTENDS Integers, Sequences, FiniteSets, TLC

VARIABLES
    media_items,   \* the list handed to a helper
    arg,           \* the helper's numeric arguments
    op,            \* the helper that was called ("none" before the call)
    ret,           \* what the helper or the Channel method returned
    self,          \* the object held by the client
    server,        \* what the dizqueTV server stores
    call,          \* arguments and locals of the running Channel method
    pc,            \* where the running Channel method is
    posts          \* POST /channel requests the method has sent

hvars == <<media_items, arg, op, ret>>

cvars == <<self, server, call, pc, posts>>

vars == <<media_items, arg, op, ret, self, server, call, pc, posts>>

None == -1

(***************************************************************************)
(* Bounds of the model.                                                    *)
(***************************************************************************)
MaxLen == 4

\* all sequences over S of length 0..n
SeqsUpTo(S, n) == UNION {[1..k -> S] : k \in 0..n}

\* self.programs builds a fresh object per entry: position = identity
WithIds(s) == [i \in DOMAIN s |-> [s[i] EXCEPT !.id = i]]

Range(s) == {s[i] : i \in DOMAIN s}

Ids(s) == {s[i].id : i \in DOMAIN s}

(***************************************************************************)
(* The item classes (models/media.py).                                     *)
(***************************************************************************)
Program(type, isOffline, duration, title, ratingKey, showTitle, season, episode, channel) ==
    [id |-> 0, cls |-> "Program", type |-> type, isOffline |-> isOffline,
     duration |-> duration, title |-> title, ratingKey |-> ratingKey,
     showTitle |-> showTitle, season |-> season, episode |-> episode,
     channel |-> channel]

\* a Redirect object has only type, isOffline, duration and channel
Redirect(id, duration, channel) ==
    [id |-> id, cls |-> "Redirect", type |-> "redirect", isOffline |-> TRUE,
     duration |-> duration, title |-> None, ratingKey |-> None,
     showTitle |-> None, season |-> None, episode |-> None,
     channel |-> channel]

\* Program(data={'duration': d, 'isOffline': True}): an offline pad
OfflinePad(id, duration) ==
    [Program("none", TRUE, duration, None, None, None, None, None, None)
        EXCEPT !.id = id]

\* entries of a lineup as the server stores them
MovieItem(title, ratingKey, duration) ==
    Program("movie", FALSE, duration, title, ratingKey, title, 1, 1, None)

TrackItem(title, ratingKey, duration) ==
    Program("track", FALSE, duration, title, ratingKey, title, 1, 1, None)

EpisodeItem(title, showTitle, season, episode, ratingKey, duration) ==
    Program("episode", FALSE, duration, title, ratingKey,
            showTitle, season, episode, None)

RedirectItem(channel, duration) ==
    Program("redirect", TRUE, duration, None, None, None, None, None, channel)

(***************************************************************************)
(* Attribute access (helpers.py).                                          *)
(***************************************************************************)
hasattr(obj, attribute_name) ==
    \/ obj.cls # "Redirect"
    \/ attribute_name \in {"type", "isOffline", "duration", "channel"}

getattr(obj, attribute_name) ==
    CASE attribute_name = "title" -> obj.title
      [] attribute_name = "ratingKey" -> obj.ratingKey
      [] attribute_name = "showTitle" -> obj.showTitle
      [] attribute_name = "season" -> obj.season
      [] attribute_name = "episode" -> obj.episode
      [] attribute_name = "channel" -> obj.channel
      [] attribute_name = "duration" -> obj.duration

_object_has_attribute(obj, attribute_name) ==
    /\ hasattr(obj, attribute_name)
    /\ IF attribute_name = "type" THEN obj.type # "none"
       ELSE getattr(obj, attribute_name) # None

\* Python truth value of a number or string rank: None, 0 and "" are false
Truthy(v) == v # None /\ v # 0

(***************************************************************************)
(* remove_duplicate_media_items                                            *)
(***************************************************************************)
remove_non_programs(items) ==
    SelectSeq(items, LAMBDA item :
        _object_has_attribute(item, "type") /\ item.type # "redirect")

\* the loop, were it to forget recording the attribute values it has seen
RECURSIVE rdba_loop_forgets_seen(_, _, _, _, _)
rdba_loop_forgets_seen(items, attribute_name, i, filtered, filtered_attr) ==
    IF i > Len(items) THEN filtered
    ELSE LET item == items[i]
             attr == getattr(item, attribute_name)
         IN  IF ~Truthy(attr) \/ attr \notin filtered_attr
             THEN rdba_loop_forgets_seen(items, attribute_name, i + 1,
                                         Append(filtered, item), filtered_attr)
             ELSE rdba_loop_forgets_seen(items, attribute_name, i + 1,
                                         filtered, filtered_attr)

RECURSIVE rdba_loop(_, _, _, _, _)
rdba_loop(items, attribute_name, i, filtered, filtered_attr) ==
    IF i > Len(items) THEN filtered
    ELSE LET item == items[i]
             attr == getattr(item, attribute_name)
         IN  IF ~Truthy(attr)
             THEN rdba_loop(items, attribute_name, i + 1,
                            Append(filtered, item), filtered_attr)
             ELSE IF attr \notin filtered_attr
             THEN rdba_loop(items, attribute_name, i + 1,
                            Append(filtered, item), filtered_attr \cup {attr})
             ELSE rdba_loop(items, attribute_name, i + 1, filtered, filtered_attr)

remove_duplicates_by_attribute(items, attribute_name) ==
    rdba_loop(items, attribute_name, 1, <<>>, {})

remove_duplicate_media_items(items) ==
    remove_duplicates_by_attribute(remove_non_programs(items), "ratingKey")

(***************************************************************************)
(* Time-box extraction                                                     *)
(***************************************************************************)
\* the same loop with "continue" where the code has "break"
RECURSIVE first_x_loop_no_break(_, _, _, _, _)
first_x_loop_no_break(programs, milliseconds, i, running_total, programs_to_return) ==
    IF i > Len(programs)
    THEN [programs |-> programs_to_return, running_total |-> running_total]
    ELSE IF running_total + programs[i].duration <= milliseconds
    THEN first_x_loop_no_break(programs, milliseconds, i + 1,
                               running_total + programs[i].duration,
                               Append(programs_to_return, programs[i]))
    ELSE first_x_loop_no_break(programs, milliseconds, i + 1,
                               running_total, programs_to_return)

\* the first loop of both functions: stops at the first item that overflows
RECURSIVE first_x_loop(_, _, _, _, _)
first_x_loop(programs, milliseconds, i, running_total, programs_to_return) ==
    IF i > Len(programs)
    THEN [programs |-> programs_to_return, running_total |-> running_total]
    ELSE IF running_total + programs[i].duration <= milliseconds
    THEN first_x_loop(programs, milliseconds, i + 1,
                      running_total + programs[i].duration,
                      Append(programs_to_return, programs[i]))
    ELSE [programs |-> programs_to_return, running_total |-> running_total]

_get_first_x_minutes_of_programs(programs, minutes) ==
    first_x_loop(programs, minutes * 60 * 1000, 1, 0, <<>>)

\* "program not in programs_to_return": list membership by object identity
NotIn(program, programs) == \A j \in DOMAIN programs : programs[j].id # program.id

\* the second loop, were it to skip the items up to the break point instead
_get_first_x_minutes_of_programs_return_unused_tail(programs, minutes) ==
    LET first == first_x_loop(programs, minutes * 60 * 1000, 1, 0, <<>>)
    IN  [programs |-> first.programs, running_total |-> first.running_total,
         leftover_programs |->
            SubSeq(programs, Len(first.programs) + 2, Len(programs))]

_get_first_x_minutes_of_programs_return_unused(programs, minutes) ==
    LET first == first_x_loop(programs, minutes * 60 * 1000, 1, 0, <<>>)
    IN  [programs |-> first.programs, running_total |-> first.running_total,
         leftover_programs |->
            SelectSeq(programs, LAMBDA program : NotIn(program, first.programs))]

(***************************************************************************)
(* Flex time                                                               *)
(***************************************************************************)
\* minute is datetime.utcnow().minute; a zero time frame divides by zero
get_needed_flex_time_ceil(item_time_milliseconds, allowed_minutes_time_frame, minute) ==
    IF allowed_minutes_time_frame = 0 THEN [raised |-> TRUE, value |-> 0]
    ELSE
    LET minute_start == IF minute >= 30 THEN 30 ELSE 0
        allowed_milliseconds_time_frame ==
            (allowed_minutes_time_frame
                + (minute_start % allowed_minutes_time_frame)) * 60 * 1000
        remainder == allowed_milliseconds_time_frame
                        - (item_time_milliseconds % allowed_milliseconds_time_frame)
    IN  [raised |-> FALSE, value |-> remainder]

get_needed_flex_time(item_time_milliseconds, allowed_minutes_time_frame, minute) ==
    IF allowed_minutes_time_frame = 0 THEN [raised |-> TRUE, value |-> 0]
    ELSE
    LET minute_start == IF minute >= 30 THEN 30 ELSE 0
        allowed_milliseconds_time_frame ==
            (allowed_minutes_time_frame
                + (minute_start % allowed_minutes_time_frame)) * 60 * 1000
        remainder == allowed_milliseconds_time_frame
                        - (item_time_milliseconds % allowed_milliseconds_time_frame)
    IN  IF remainder = allowed_milliseconds_time_frame
        THEN [raised |-> FALSE, value |-> 0]
        ELSE [raised |-> FALSE, value |-> remainder]

(***************************************************************************)
(* Python containers.  sorted() is stable: an element goes after every     *)
(* element whose key is not greater.  A dict keeps its keys in insertion   *)
(* order and is modelled by the sequence of its [k, v] entries.            *)
(***************************************************************************)
RECURSIVE sorted_insert(_, _, _)
sorted_insert(done, entry, i) ==
    IF i > Len(done) \/ done[i].k > entry.k
    THEN SubSeq(done, 1, i - 1) \o <<entry>> \o SubSeq(done, i, Len(done))
    ELSE sorted_insert(done, entry, i + 1)

RECURSIVE sorted_loop(_, _, _)
sorted_loop(entries, i, done) ==
    IF i > Len(entries) THEN done
    ELSE sorted_loop(entries, i + 1, sorted_insert(done, entries[i], 1))

\* sorted(entries, key=lambda entry: entry.k)
sorted(entries) == sorted_loop(entries, 1, <<>>)

Values(entries) == [i \in DOMAIN entries |-> entries[i].v]

DictHas(d, key) == \E i \in DOMAIN d : d[i].k = key

DictGet(d, key) == d[CHOOSE i \in DOMAIN d : d[i].k = key].v

\* d[key] = value
DictSet(d, key, value) ==
    IF DictHas(d, key)
    THEN [i \in DOMAIN d |->
            IF d[i].k = key THEN [k |-> key, v |-> value] ELSE d[i]]
    ELSE Append(d, [k |-> key, v |-> value])

RECURSIVE Flatten(_)
Flatten(seqs) ==
    IF seqs = <<>> THEN <<>> ELSE Head(seqs) \o Flatten(Tail(seqs))

(***************************************************************************)
(* Show grouping                                                           *)
(***************************************************************************)
_separate_with_and_without(items, attribute_name) ==
    [with |-> SelectSeq(items, LAMBDA item :
                    _object_has_attribute(item, attribute_name)),
     without |-> SelectSeq(items, LAMBDA item :
                    ~_object_has_attribute(item, attribute_name))]

get_non_shows(items) ==
    SelectSeq(items, LAMBDA item :
        \/ (_object_has_attribute(item, "type") /\ item.type # "episode")
        \/ (_object_has_attribute(item, "season") /\ ~Truthy(item.season)))

RECURSIVE make_show_dict_loop(_, _, _)
make_show_dict_loop(items, i, show_dict) ==
    IF i > Len(items) THEN show_dict
    ELSE LET item == items[i] IN
         IF /\ _object_has_attribute(item, "type")
            /\ item.type = "episode"
            /\ Truthy(item.episode)
         THEN IF DictHas(show_dict, item.showTitle)
              THEN LET seasons == DictGet(show_dict, item.showTitle) IN
                   IF DictHas(seasons, item.season)
                   THEN make_show_dict_loop(items, i + 1,
                            DictSet(show_dict, item.showTitle,
                                DictSet(seasons, item.season,
                                    DictSet(DictGet(seasons, item.season),
                                            item.episode, item))))
                   ELSE make_show_dict_loop(items, i + 1,
                            DictSet(show_dict, item.showTitle,
                                DictSet(seasons, item.season,
                                    <<[k |-> item.episode, v |-> item]>>)))
              ELSE make_show_dict_loop(items, i + 1,
                        DictSet(show_dict, item.showTitle,
                            <<[k |-> item.season,
                               v |-> <<[k |-> item.episode, v |-> item]>>]>>))
         ELSE make_show_dict_loop(items, i + 1, show_dict)

make_show_dict(items) == make_show_dict_loop(items, 1, <<>>)

\* shows keep their insertion order; seasons and episodes are sorted
order_show_dict(show_dict) ==
    [i \in DOMAIN show_dict |->
        [k |-> show_dict[i].k,
         v |-> sorted([j \in DOMAIN show_dict[i].v |->
                        [k |-> show_dict[i].v[j].k,
                         v |-> sorted(show_dict[i].v[j].v)]])]]

\* the episodes of one show of an ordered show dict, in dict order
EpisodesOf(seasons) ==
    Flatten([j \in DOMAIN seasons |-> Values(seasons[j].v)])

RECURSIVE SumDurations(_)
SumDurations(items) ==
    IF items = <<>> THEN 0
    ELSE Head(items).duration + SumDurations(Tail(items))

\* per show: its seasons and the total duration of its episodes
add_durations_to_show_dict(show_dict) ==
    [i \in DOMAIN show_dict |->
        [k |-> show_dict[i].k,
         v |-> [seasons |-> show_dict[i].v,
                duration |-> SumDurations(EpisodesOf(show_dict[i].v))]]]

(***************************************************************************)
(* Ordering strategies                                                     *)
(***************************************************************************)
\* the sort key, were it the title for every item
alphabetical_key_title(x) == x.title

\* lambda x: (x.showTitle if x.type == 'episode' else x.title)
alphabetical_key(x) == IF x.type = "episode" THEN x.showTitle ELSE x.title

sort_media_alphabetically(items) ==
    LET sep == _separate_with_and_without(items, "title")
        sorted_items ==
            Values(sorted([i \in DOMAIN sep.with |->
                            [k |-> alphabetical_key(sep.with[i]),
                             v |-> sep.with[i]]]))
    IN  sorted_items \o sep.without

\* every level is sorted by its key: the keys of a dict are distinct, so the
\* (key, value) tuples the code compares are ordered by their keys
_sort_shows_by_season_order(shows_dict) ==
    LET sorted_shows == sorted(shows_dict)
    IN  Flatten([i \in DOMAIN sorted_shows |->
            LET sorted_seasons == sorted(sorted_shows[i].v)
            IN  Flatten([j \in DOMAIN sorted_seasons |->
                    Values(sorted(sorted_seasons[j].v))])])

sort_media_by_season_order(items) ==
    LET non_shows == get_non_shows(items)
        show_dict == make_show_dict(items)
        sorted_shows == _sort_shows_by_season_order(show_dict)
        sorted_movies == sort_media_alphabetically(non_shows)
    IN  sorted_shows \o sorted_movies

\* the loops over the seasons and episodes of one show: episodes are taken
\* in order until one fails the test (continue_with_show = False)
sort_media_by_duration(items) ==
    LET non_redirects ==
            SelectSeq(items, LAMBDA item :
                /\ _object_has_attribute(item, "duration")
                /\ _object_has_attribute(item, "type")
                /\ item.type # "redirect")
    IN  Values(sorted([i \in DOMAIN non_redirects |->
                        [k |-> non_redirects[i].duration,
                         v |-> non_redirects[i]]]))

RECURSIVE balance_show_loop(_, _, _, _, _, _)
balance_show_loop(episodes, i, shortest_show_length, margin_pct, show_running_duration, kept) ==
    IF i > Len(episodes) THEN kept
    ELSE LET potential_show_duration ==
                show_running_duration + episodes[i].duration
         IN  IF potential_show_duration * 100
                    <= shortest_show_length * (100 + margin_pct)
             THEN balance_show_loop(episodes, i + 1, shortest_show_length,
                                    margin_pct, potential_show_duration,
                                    Append(kept, episodes[i]))
             ELSE kept

\* margin_of_correction is margin_pct / 100; the float test
\* potential / shortest <= 1 + margin_of_correction is decided exactly.
\* min() of no show raises ValueError, a division by a shortest length of 0
\* raises ZeroDivisionError.
balance_shows(items, margin_pct) ==
    LET non_shows == get_non_shows(items)
        show_dict == make_show_dict(items)
        ordered_show_dict == order_show_dict(show_dict)
        ordered_show_dict_with_durations ==
            add_durations_to_show_dict(ordered_show_dict)
        show_durations ==
            {ordered_show_dict_with_durations[i].v.duration :
                i \in DOMAIN ordered_show_dict_with_durations}
    IN  IF show_durations = {} \/ 0 \in show_durations
        THEN [raised |-> TRUE, value |-> <<>>]
        ELSE
        LET shortest_show_length ==
                CHOOSE d \in show_durations : \A e \in show_durations : d <= e
            final_shows ==
                Flatten([i \in DOMAIN ordered_show_dict_with_durations |->
                    balance_show_loop(
                        EpisodesOf(ordered_show_dict_with_durations[i].v.seasons),
                        1, shortest_show_length, margin_pct, 0, <<>>)])
            sorted_movies == sort_media_alphabetically(non_shows)
        IN  [raised |-> FALSE, value |-> final_shows \o sorted_movies]

(***************************************************************************)
(* The Channel object and the server (models/channels.py, dizquetv.py).    *)
(*                                                                         *)
(* The server's JSON of a channel is a record; "programs" is the lineup.   *)
(* A lineup entry is a dict: it is an item record whose id is 0, because   *)
(* object identity is not stored, and whose cls is "Program", because      *)
(* Channel.programs rebuilds every entry as a Program.  Times of day are   *)
(* whole hours counted from the local midnight of the current day.         *)
(***************************************************************************)
ChannelData(lineup, startTime) ==
    [number |-> 1, programs |-> lineup, duration |-> SumDurations(lineup),
     startTime |-> startTime, scheduleBackup |-> "schedule"]

\* Channel.__init__: _program_data is the very list held by _data
Channel(data) ==
    [_data |-> data, _program_data |-> data.programs, aliased |-> TRUE,
     startTime |-> data.startTime, duration |-> data.duration]

\* the programs property: a fresh Program object per entry
Channel_programs(ch) == WithIds(ch._program_data)

\* program._data
ProgramData(program) == [program EXCEPT !.id = 0, !.cls = "Program"]

\* identity of the next object Python creates
FreshId(objects) ==
    1 + (CHOOSE m \in Ids(objects) \cup {0} :
            \A n \in Ids(objects) \cup {0} : n <= m)

\* default_dict[k] = v for every key of the new settings: a key the
\* default does not have is added to it
_combine_settings_add_new(new_settings_dict, default_dict) ==
    [k \in DOMAIN default_dict \cup DOMAIN new_settings_dict |->
        IF k \in DOMAIN new_settings_dict THEN new_settings_dict[k]
        ELSE default_dict[k]]

\* a request returns nothing on a timeout or an error status
UpdateOutcomes == {"ok", "get_failed", "post_failed", "refresh_failed"}

\* Channel.update: API.update_channel (GET, combine, POST), then refresh (GET)
Channel_update(st, kwargs, outcome) ==
    IF outcome = "get_failed" THEN [st EXCEPT !.ok = FALSE]
    ELSE IF outcome = "post_failed"
    THEN [st EXCEPT !.ok = FALSE, !.posts = @ + 1]
    ELSE LET new_settings ==
                _combine_settings_add_new(kwargs, st.server.channel)
         IN  [self |-> IF outcome = "refresh_failed" THEN st.self
                       ELSE Channel(new_settings),
              server |-> [st.server EXCEPT !.channel = new_settings],
              posts |-> st.posts + 1,
              ok |-> TRUE]

\* channel_data['programs'] = [] rebinds the key: _program_data keeps the old list
Channel_delete_all_programs(st, outcome) ==
    LET channel_data ==
            [st.self._data EXCEPT
                !.duration = @ - SumDurations(Channel_programs(st.self)),
                !.programs = <<>>]
    IN  Channel_update([st EXCEPT !.self._data = channel_data,
                                  !.self.aliased = FALSE],
                       channel_data, outcome)

\* channel_data['programs'].append changes the list in place
Channel_add_programs(st, programs, outcome) ==
    LET entries == [i \in DOMAIN programs |-> ProgramData(programs[i])]
        channel_data ==
            [st.self._data EXCEPT
                !.programs = @ \o entries,
                !.duration = @ + SumDurations(programs)]
    IN  Channel_update([st EXCEPT
                            !.self._data = channel_data,
                            !.self._program_data =
                                IF st.self.aliased THEN @ \o entries ELSE @],
                       channel_data, outcome)

(***************************************************************************)
(* Channel methods that change one program                                 *)
(***************************************************************************)
\* add_program(program=program): kwargs['type'] of an entry without a type
\* is a KeyError; the duration is added before the update is sent
Channel_add_program(st, program, outcome) ==
    IF program.type = "none" THEN [st |-> st, raised |-> TRUE]
    ELSE LET kwargs == ProgramData(program)
             channel_data ==
                [st.self._data EXCEPT
                    !.programs = Append(@, kwargs),
                    !.duration = @ + kwargs.duration]
         IN  [st |-> Channel_update(
                        [st EXCEPT
                            !.self._data = channel_data,
                            !.self._program_data =
                                IF st.self.aliased THEN Append(@, kwargs)
                                ELSE @],
                        channel_data, outcome),
              raised |-> FALSE]

\* the test of update_program and delete_program on one entry of the
\* lineup: a_program['type'] and a_program['title'] are a KeyError when
\* the entry has no such key
program_matches(program, a_program) ==
    IF program.type = "redirect" /\ a_program.type = "none"
    THEN [raised |-> TRUE, value |-> FALSE]
    ELSE IF program.type = "redirect" /\ a_program.type = "redirect"
    THEN [raised |-> FALSE, value |-> TRUE]
    ELSE IF a_program.title = None
    THEN [raised |-> TRUE, value |-> FALSE]
    ELSE [raised |-> FALSE, value |-> a_program.title = program.title]

\* "for a_program in channel_data['programs']": index of the first match
RECURSIVE find_program(_, _, _)
find_program(programs, program, i) ==
    IF i > Len(programs) THEN [raised |-> FALSE, value |-> 0]
    ELSE LET test == program_matches(program, programs[i])
         IN  IF test.raised THEN [raised |-> TRUE, value |-> 0]
             ELSE IF test.value THEN [raised |-> FALSE, value |-> i]
             ELSE find_program(programs, program, i + 1)

\* the entries are changed in place: both lists hold the same dicts
Channel_update_program(st, program, duration, outcome) ==
    LET found == find_program(st.self._data.programs, program, 1)
        i == found.value
        channel_data ==
            [st.self._data EXCEPT
                !.duration = IF Truthy(duration)
                             THEN (@ - st.self._data.programs[i].duration)
                                    + duration
                             ELSE @,
                !.programs[i].duration = duration]
    IN  IF found.raised THEN [st |-> st, raised |-> TRUE]
        ELSE IF i = 0 THEN [st |-> [st EXCEPT !.ok = FALSE], raised |-> FALSE]
        ELSE [st |-> Channel_update(
                        [st EXCEPT
                            !.self._data = channel_data,
                            !.self._program_data =
                                IF st.self.aliased THEN channel_data.programs
                                ELSE @],
                        channel_data, outcome),
              raised |-> FALSE]

Channel_delete_program(st, program, outcome) ==
    LET programs == st.self._data.programs
        found == find_program(programs, program, 1)
        i == found.value
        \* list.remove takes out the first entry equal to a_program
        first == CHOOSE j \in 1..i : /\ programs[j] = programs[i]
                                     /\ \A k \in 1..(j - 1) :
                                            programs[k] # programs[i]
        channel_data ==
            [st.self._data EXCEPT
                !.duration = @ - programs[i].duration,
                !.programs = SubSeq(programs, 1, first - 1)
                                \o SubSeq(programs, first + 1, Len(programs))]
    IN  IF found.raised THEN [st |-> st, raised |-> TRUE]
        ELSE IF i = 0 THEN [st |-> [st EXCEPT !.ok = FALSE], raised |-> FALSE]
        ELSE [st |-> Channel_update(
                        [st EXCEPT
                            !.self._data = channel_data,
                            !.self._program_data =
                                IF st.self.aliased THEN channel_data.programs
                                ELSE @],
                        channel_data, outcome),
              raised |-> FALSE]

(***************************************************************************)
(* Channel methods that replace the lineup                                 *)
(***************************************************************************)
\* "if programs and self.delete_all_programs():
\*      return self.add_programs(programs=programs)
\*  return False"
replace_programs(st, programs, o1, o2) ==
    IF programs = <<>> THEN [st EXCEPT !.ok = FALSE]
    ELSE LET deleted == Channel_delete_all_programs(st, o1)
         IN  IF deleted.ok THEN Channel_add_programs(deleted, programs, o2)
             ELSE deleted

\* what delete_show collects to add back
delete_show_programs_to_add(all_programs, show_name, season_number) ==
    SelectSeq(all_programs, LAMBDA program :
        \/ program.type # "episode"
        \/ program.showTitle # show_name
        \/ (Truthy(season_number) /\ season_number # season_number))

\* add_programs raises when it is given no program
Channel_delete_show(st, show_name, season_number, o1, o2) ==
    LET programs_to_add ==
            delete_show_programs_to_add(Channel_programs(st.self),
                                        show_name, season_number)
        deleted == Channel_delete_all_programs(st, o1)
    IN  IF ~deleted.ok THEN [st |-> deleted, raised |-> FALSE]
        ELSE IF programs_to_add = <<>> THEN [st |-> deleted, raised |-> TRUE]
        ELSE [st |-> Channel_add_programs(deleted, programs_to_add, o2),
              raised |-> FALSE]

\* the programs that are not offline, and the redirects
Channel_delete_all_offline_times(st, o1, o2) ==
    replace_programs(st,
        SelectSeq(Channel_programs(st.self), LAMBDA program :
            ~program.isOffline \/ program.type = "redirect"),
        o1, o2)

\* the loop of pad_times: every program, then the pad it needs if any
pad_times_programs_and_pads(programs, start_every_x_minutes, minute) ==
    IF programs # <<>> /\ start_every_x_minutes = 0
    THEN [raised |-> TRUE, value |-> <<>>]
    ELSE [raised |-> FALSE,
          value |-> Flatten([i \in DOMAIN programs |->
            LET filler_time_needed ==
                    get_needed_flex_time(programs[i].duration,
                        start_every_x_minutes, minute).value
            IN  IF filler_time_needed > 0
                THEN <<programs[i],
                       OfflinePad(FreshId(programs) + i, filler_time_needed)>>
                ELSE <<programs[i]>>])]

\* random.shuffle: the list in any order
Shuffles(items) ==
    {[i \in DOMAIN items |-> items[f[i]]] :
        f \in {g \in [DOMAIN items -> DOMAIN items] :
                    \A i, j \in DOMAIN items : g[i] = g[j] => i = j}}

\* collections.deque(items).rotate(shift_index): to the right
rotate_items(items, shift_index) ==
    [i \in DOMAIN items |->
        items[((i - 1 - shift_index) % Len(items)) + 1]]

\* list.remove(value)
list_remove(items, value) ==
    LET first == CHOOSE i \in DOMAIN items :
                    items[i] = value /\ \A j \in 1..(i - 1) : items[j] # value
    IN  SubSeq(items, 1, first - 1) \o SubSeq(items, first + 1, Len(items))

\* shows in dict order, each with the list of its episodes in dict order
condense_show_dict(show_dict) ==
    [count |-> Len(Flatten([i \in DOMAIN show_dict |->
                                EpisodesOf(show_dict[i].v)])),
     shows |-> [i \in DOMAIN show_dict |->
                    [k |-> show_dict[i].k,
                     v |-> EpisodesOf(show_dict[i].v)]]]

\* block_pop, were the episodes popped from the end of the list
block_pop_from_end(episodes, n) ==
    LET taken == IF n < Len(episodes) THEN n ELSE Len(episodes)
    IN  [popped |-> [i \in 1..taken |-> episodes[Len(episodes) + 1 - i]],
         episodes |-> SubSeq(episodes, 1, Len(episodes) - taken)]

\* one "for _ in range(0, n)" of the block shuffle on one show's episodes:
\* what is popped, and what stays
block_pop(episodes, n) ==
    LET taken == IF n < Len(episodes) THEN n ELSE Len(episodes)
    IN  [popped |-> SubSeq(episodes, 1, taken),
         episodes |-> SubSeq(episodes, taken + 1, Len(episodes))]

\* "for show_name, data in condensed_show_dict['shows'].items()": one round
RECURSIVE block_round(_, _, _, _)
block_round(shows, block_length, i, final_show_list) ==
    IF i > Len(shows)
    THEN [shows |-> shows, final_show_list |-> final_show_list]
    ELSE LET pop == block_pop(shows[i].v, block_length)
         IN  block_round([shows EXCEPT ![i].v = pop.episodes], block_length,
                         i + 1, final_show_list \o pop.popped)

(***************************************************************************)
(* Custom shows in a lineup (dizquetv.py).  A lineup entry may carry a     *)
(* customShowId; consecutive entries of one custom show are read as one    *)
(* CustomShow object.                                                      *)
(***************************************************************************)
\* custom_show_programs[0] of an empty list raises IndexError
create_custom_show_with_programs(custom_show_programs) ==
    [cls |-> "CustomShow",
     id |-> custom_show_programs[1].customShowId,
     content |-> custom_show_programs]

\* non_custom_show_type(data=item, **kwargs)
non_custom_show_type(item) == [cls |-> "Program", data |-> item]

\* the loop over the items and the statements after it
RECURSIVE parse_custom_shows_loop(_, _, _, _, _, _)
parse_custom_shows_loop(items, i, custom_show_programs, current_custom_show_id, parsing_custom_show, final_items) ==
    IF i > Len(items)
    THEN [raised |-> FALSE,
          value |-> IF custom_show_programs # <<>>
                    THEN Append(final_items,
                            create_custom_show_with_programs(
                                custom_show_programs))
                    ELSE final_items]
    ELSE LET item == items[i] IN
         IF Truthy(item.customShowId)
         THEN LET current == IF ~Truthy(current_custom_show_id)
                             THEN item.customShowId
                             ELSE current_custom_show_id
              IN  IF item.customShowId = current
                  THEN parse_custom_shows_loop(items, i + 1,
                            Append(custom_show_programs, item), current,
                            TRUE, final_items)
                  ELSE IF custom_show_programs = <<>>
                  THEN [raised |-> TRUE, value |-> <<>>]
                  ELSE parse_custom_shows_loop(items, i + 1, <<item>>,
                            item.customShowId, TRUE,
                            Append(final_items,
                                create_custom_show_with_programs(
                                    custom_show_programs)))
         ELSE IF parsing_custom_show
              THEN IF custom_show_programs = <<>>
                   THEN [raised |-> TRUE, value |-> <<>>]
                   ELSE parse_custom_shows_loop(items, i + 1, <<>>,
                            current_custom_show_id, FALSE,
                            Append(final_items,
                                create_custom_show_with_programs(
                                    custom_show_programs)))
              ELSE parse_custom_shows_loop(items, i + 1,
                        custom_show_programs, current_custom_show_id,
                        parsing_custom_show,
                        Append(final_items, non_custom_show_type(item)))

parse_custom_shows_and_non_custom_shows(items) ==
    parse_custom_shows_loop(items, 1, <<>>, None, FALSE, <<>>)

(***************************************************************************)
(* The schedule of a channel and its time slots (models/channels.py).      *)
(*                                                                         *)
(* self._data['slots'] is a list of dicts; a dict is a record whose id is  *)
(* its identity.  A TimeSlot object keeps the time it was built with and   *)
(* a reference to its dict, here the dict's identity and present value.    *)
(***************************************************************************)
TimeSlot(data) == [time |-> data.time, id |-> data.id, _data |-> data]

Schedule(slots) ==
    [slots |-> WithIds(slots),
     time_slots |-> [i \in DOMAIN slots |-> TimeSlot(WithIds(slots)[i])]]

\* dict equality: the identity is not part of the value
slot_value(slot) == <<slot.time, slot.showId, slot.order>>

\* SCHEDULE_SETTINGS_TEMPLATE['slots'] is the list []: nothing is in it
SCHEDULE_SETTINGS_TEMPLATE_slots == {}

\* SCHEDULE_SETTINGS_DEFAULT['slots']
SCHEDULE_SETTINGS_DEFAULT_slots == <<>>

\* _combine_settings_enforce_types on the key 'slots': the new value is
\* taken when its type equals the template entry, which a list never
\* does, or when it is a member of the template entry
_combine_settings_enforce_types_slots(new_slots, default_slots) ==
    IF new_slots \in SCHEDULE_SETTINGS_TEMPLATE_slots
    THEN new_slots
    ELSE default_slots

\* the POST to the time-slot tool or the channel update fails, or the
\* channel is stored and then not read back
ScheduleOutcomes == {"ok", "failed", "refresh_failed"}

\* Schedule.update(slots=...): the slots are put in self._data, the
\* settings go through Channel.update_schedule, add_schedule and
\* _make_schedule, and the channel reloads
Schedule_update(st, slots, outcome) ==
    LET mutated == [st.self EXCEPT !.slots = slots]
        schedule_settings_slots ==
            _combine_settings_enforce_types_slots(
                slots, SCHEDULE_SETTINGS_DEFAULT_slots)
        stored == [slots |-> [i \in DOMAIN schedule_settings_slots |->
                        [schedule_settings_slots[i] EXCEPT !.id = 0]]]
    IN  CASE outcome = "ok" ->
                [self |-> Schedule(stored.slots), server |-> stored,
                 ok |-> TRUE]
          [] outcome = "refresh_failed" ->
                [self |-> mutated, server |-> stored, ok |-> FALSE]
          [] OTHER ->
                [self |-> mutated, server |-> st.server, ok |-> FALSE]

\* add_time_slot with keyword arguments; order = "none" stands for a call
\* without the keyword
Schedule_add_time_slot(st, time, showId, order, scheduledableItems, outcome) ==
    IF \/ order = "none"
       \/ showId \notin scheduledableItems
       \/ \E i \in DOMAIN st.self.slots : st.self.slots[i].time = time
    THEN [st |-> st, raised |-> TRUE]
    ELSE [st |-> Schedule_update(st,
                    Append(st.self.slots,
                           [id |-> FreshId(st.self.slots
                                            \o st.self.time_slots),
                            time |-> time, showId |-> showId,
                            order |-> order]),
                    outcome),
          raised |-> FALSE]

\* _combine_settings(kwargs, slot) writes into the slot's dict; time = None
\* stands for a call without the keyword
Schedule_edit_time_slot(st, time_slot, time, outcome) ==
    LET edited(slot) ==
            IF slot.time # time_slot.time \/ time = None THEN slot
            ELSE [slot EXCEPT !.time = time]
        new_slots == [i \in DOMAIN st.self.slots |-> edited(st.self.slots[i])]
        dict(id) == new_slots[CHOOSE i \in DOMAIN new_slots :
                                new_slots[i].id = id]
        time_slots ==
            [i \in DOMAIN st.self.time_slots |->
                IF st.self.time_slots[i].id \in Ids(new_slots)
                THEN [st.self.time_slots[i] EXCEPT
                        !._data = dict(st.self.time_slots[i].id)]
                ELSE st.self.time_slots[i]]
    IN  [st |-> Schedule_update(
                    [st EXCEPT !.self.time_slots = time_slots],
                    new_slots, outcome),
         raised |-> FALSE]

\* slots.remove(time_slot._data) removes the first dict equal to it and
\* raises ValueError, caught, when there is none
Schedule_delete_time_slot(st, time_slot, outcome) ==
    LET slots == st.self.slots
        equal == {i \in DOMAIN slots :
                    slot_value(slots[i]) = slot_value(time_slot._data)}
    IN  IF equal = {}
        THEN [st |-> [st EXCEPT !.ok = FALSE], raised |-> FALSE]
        ELSE LET first == CHOOSE i \in equal : \A j \in equal : i <= j
             IN  [st |-> Schedule_update(st,
                            SubSeq(slots, 1, first - 1)
                                \o SubSeq(slots, first + 1, Len(slots)),
                            outcome),
                  raised |-> FALSE]

(***************************************************************************)
(* Creating a channel (dizquetv.py, models/templates.py).  A settings dict *)
(* is a function from its keys.  The dicts of models/templates.py are      *)
(* objects of the process: a helper that writes into one of them changes   *)
(* it for every later call.                                                *)
(***************************************************************************)
\* widths and margins are percentages, here in hundredths of a percent
WATERMARK_SETTINGS_DEFAULT ==
    [enabled |-> FALSE, width |-> 625, verticalMargin |-> 185,
     horizontalMargin |-> 104, duration |-> 60, fixedSize |-> FALSE,
     position |-> "bottom-right", url |-> "", animated |-> FALSE]

CHANNEL_FFMPEG_SETTINGS_DEFAULT ==
    [targetResolution |-> "", videoBitrate |-> None, videoBufSize |-> None]

\* the entry 'watermark' is a reference to the dict WATERMARK_SETTINGS_DEFAULT
CHANNEL_SETTINGS_DEFAULT ==
    [fillerRepeatCooldown |-> 1800000, fallback |-> <<>>,
     disableFillerOverlay |-> TRUE, offlineSoundtrack |-> "",
     offlineMode |-> "pic", fillerCollections |-> <<>>,
     watermark |-> "WATERMARK_SETTINGS_DEFAULT",
     transcoding |-> CHANNEL_FFMPEG_SETTINGS_DEFAULT,
     guideMinimumDurationSeconds |-> 300, guideFlexPlaceholder |-> "",
     enabled |-> TRUE, stealth |-> FALSE, groupTitle |-> "dizqueTV"]

\* the keys of CHANNEL_SETTINGS_TEMPLATE
CHANNEL_SETTINGS_TEMPLATE ==
    {"programs", "fillerRepeatCooldown", "fallback", "icon",
     "disableFillerOverlay", "startTime", "offlinePicture",
     "offlineSoundtrack", "offlineMode", "number", "name", "duration", "_id",
     "fillerCollections", "watermark", "transcoding",
     "guideMinimumDurationSeconds", "guideFlexPlaceholder", "stealth",
     "enabled", "groupTitle"}

\* one hundred percent, in hundredths of a percent
Percent100 == 10000

\* settings_dict[k] = v
dict_set(d, k, v) == [j \in DOMAIN d \cup {k} |-> IF j = k THEN v ELSE d[j]]

\* raises MissingSettingsError, here FALSE, when a key of the template is
\* neither in the settings nor ignored
_settings_are_complete(new_settings_dict, template_settings_dict, ignore_keys) ==
    \A k \in template_settings_dict :
        k \in DOMAIN new_settings_dict \/ k \in ignore_keys

\* the most recently past hour or half hour, by its minute
get_nearest_30_minute_mark(minute) == IF minute >= 30 THEN 30 ELSE 0

\* _fill_in_watermark_settings(**settings_dict): handle_errors keeps its
\* default True; the combined dict is the default dict itself, written
\* before the checks
_fill_in_watermark_settings(watermark_default, kwargs) ==
    LET final_dict == _combine_settings_add_new(kwargs, watermark_default)
    IN  [final_dict |-> final_dict,
         raised |->
            /\ final_dict.enabled = TRUE
            /\ \/ ~(0 < final_dict.width /\ final_dict.width <= Percent100)
               \/ ~(final_dict.width + final_dict.horizontalMargin
                        <= Percent100)
               \/ ~(final_dict.verticalMargin <= Percent100)
               \/ ~(final_dict.duration # 0 /\ final_dict.duration >= 0)]

\* if not settings_dict.get(k): settings_dict[k] = v, for a key whose
\* values are never falsy
dict_setdefault(d, k, v) == IF k \notin DOMAIN d THEN dict_set(d, k, v) ELSE d

\* handle_errors: a channel without programs gets ten minutes of flex time
fill_in_programs(settings_dict) ==
    IF settings_dict.programs = <<>>
    THEN dict_set(settings_dict, "programs",
                  <<[duration |-> 600000, isOffline |-> TRUE]>>)
    ELSE settings_dict

number_taken(settings_dict, channel_numbers) ==
    /\ "number" \in DOMAIN settings_dict
    /\ settings_dict.number \in channel_numbers

\* not settings_dict.get('number'), after a taken number is popped
no_number(settings_dict, channel_numbers) ==
    \/ "number" \notin DOMAIN settings_dict
    \/ settings_dict.number = 0
    \/ number_taken(settings_dict, channel_numbers)

\* max(channel_numbers) + 1 when there is no number
fill_in_number(settings_dict, channel_numbers) ==
    IF no_number(settings_dict, channel_numbers)
    THEN dict_set(settings_dict, "number",
                  1 + (CHOOSE m \in channel_numbers :
                          \A n \in channel_numbers : n <= m))
    ELSE settings_dict

\* name, startTime, icon, offlinePicture and the duration, which is
\* overridden whatever the caller gave
fill_in_dynamic_defaults(settings_dict, minute) ==
    dict_set(
        dict_setdefault(
            dict_setdefault(
                dict_setdefault(
                    dict_setdefault(settings_dict, "name",
                                    <<"Channel", settings_dict.number>>),
                    "startTime", get_nearest_30_minute_mark(minute)),
                "icon", "url/images/dizquetv.png"),
            "offlinePicture", "url/images/generic-offline-screen.png"),
        "duration", SumDurations(settings_dict.programs))

\* templates: the two default dicts as the process holds them
_fill_in_default_channel_settings(templates, settings_dict, handle_errors, channel_numbers, minute) ==
    IF \/ settings_dict.programs = <<>> /\ ~handle_errors
       \/ number_taken(settings_dict, channel_numbers) /\ ~handle_errors
       \/ no_number(settings_dict, channel_numbers) /\ channel_numbers = {}
    THEN [raised |-> TRUE, templates |-> templates, value |-> <<>>]
    ELSE LET filled == fill_in_dynamic_defaults(
                            fill_in_number(fill_in_programs(settings_dict),
                                           channel_numbers),
                            minute)
             watermark == _fill_in_watermark_settings(
                            templates.WATERMARK_SETTINGS_DEFAULT, filled)
         IN  IF watermark.raised
             THEN [raised |-> TRUE,
                   templates |-> [templates EXCEPT
                        !.WATERMARK_SETTINGS_DEFAULT = watermark.final_dict],
                   value |-> <<>>]
             ELSE [raised |-> FALSE,
                   templates |->
                    [CHANNEL_SETTINGS_DEFAULT |->
                        _combine_settings_add_new(
                            dict_set(filled, "watermark",
                                     "WATERMARK_SETTINGS_DEFAULT"),
                            templates.CHANNEL_SETTINGS_DEFAULT),
                     WATERMARK_SETTINGS_DEFAULT |-> watermark.final_dict],
                   value |-> <<_combine_settings_add_new(
                                dict_set(filled, "watermark",
                                         "WATERMARK_SETTINGS_DEFAULT"),
                                templates.CHANNEL_SETTINGS_DEFAULT)>>]

\* the JSON body of a request: the watermark entry is written out
json_data(kwargs, templates) ==
    [kwargs EXCEPT !.watermark = templates.WATERMARK_SETTINGS_DEFAULT]

\* a PUT returns nothing on a timeout or an error status
PutOutcomes == {"ok", "failed"}

\* API.add_channel with Program objects; sent is the body of the PUT, if
\* one was made
API_add_channel(st, programs, handle_errors, kwargs, minute, outcome) ==
    LET settings_dict == dict_set(kwargs, "programs", programs)
        filled == _fill_in_default_channel_settings(
                    st.templates, settings_dict, handle_errors,
                    st.channel_numbers, minute)
    IN  IF filled.raised
        THEN [templates |-> filled.templates,
              channel_numbers |-> st.channel_numbers,
              raised |-> TRUE, sent |-> <<>>, value |-> FALSE]
        ELSE IF ~_settings_are_complete(filled.value[1],
                    CHANNEL_SETTINGS_TEMPLATE, {"_id", "id"})
        THEN [templates |-> filled.templates,
              channel_numbers |-> st.channel_numbers,
              raised |-> TRUE, sent |-> <<>>, value |-> FALSE]
        ELSE [templates |-> filled.templates,
              channel_numbers |->
                IF outcome = "ok"
                THEN st.channel_numbers \cup {filled.value[1].number}
                ELSE st.channel_numbers,
              raised |-> FALSE,
              sent |-> <<json_data(filled.value[1], filled.templates)>>,
              value |-> outcome = "ok"]

(***************************************************************************)
(* Channel at night                                                        *)
(***************************************************************************)
get_milliseconds_between_two_hours(start_hour, end_hour) ==
    IF end_hour < start_hour
    THEN ((24 + end_hour) - start_hour) * 60 * 60 * 1000
    ELSE (end_hour - start_hour) * 60 * 60 * 1000

\* int(milliseconds / 1000 / 60): int() rounds towards zero
whole_minutes(milliseconds) ==
    IF milliseconds >= 0 THEN milliseconds \div (1000 * 60)
    ELSE -((-milliseconds) \div (1000 * 60))

add_channel_at_night_raises(night_channel_number, start_hour, end_hour, channel_numbers) ==
    \/ start_hour > 23 \/ start_hour < 0
    \/ end_hour > 23 \/ end_hour < 0
    \/ start_hour = end_hour
    \/ night_channel_number \notin channel_numbers

\* the checks, were the 24-hour test left out
add_channel_at_night_alt_raises_hours_only(night_channel_number, start_hour, end_hour, channel_numbers) ==
    \/ start_hour > 23 \/ start_hour < 0
    \/ end_hour > 23 \/ end_hour < 0
    \/ night_channel_number \notin channel_numbers

add_channel_at_night_alt_raises(night_channel_number, start_hour, end_hour, channel_numbers) ==
    \/ start_hour > 23 \/ start_hour < 0
    \/ end_hour > 23 \/ end_hour < 0
    \/ night_channel_number \notin channel_numbers
    \/ get_milliseconds_between_two_hours(start_hour, end_hour) = 0

\* the same block, were the redirect given the length of the day block
night_block_day_redirect(programs_left, milliseconds_to_fill, length_of_night_block, night_channel_number, next_id) ==
    LET first == _get_first_x_minutes_of_programs_return_unused(
                    programs_left, whole_minutes(milliseconds_to_fill))
        padded == IF first.running_total < milliseconds_to_fill
                  THEN Append(first.programs,
                              OfflinePad(next_id,
                                  milliseconds_to_fill - first.running_total))
                  ELSE first.programs
    IN  [programs_to_add |->
            Append(padded, Redirect(next_id + 1, milliseconds_to_fill,
                                    night_channel_number)),
         programs_left |-> first.leftover_programs]

\* the same block, were no flex time put between the programs and the night
night_block_without_flex_time(programs_left, milliseconds_to_fill, length_of_night_block, night_channel_number, next_id) ==
    LET first == _get_first_x_minutes_of_programs_return_unused(
                    programs_left, whole_minutes(milliseconds_to_fill))
    IN  [programs_to_add |->
            Append(first.programs,
                   Redirect(next_id + 1, length_of_night_block,
                            night_channel_number)),
         programs_left |-> first.leftover_programs]

\* what fits before the night, flex time up to the night, then the redirect
night_block(programs_left, milliseconds_to_fill, length_of_night_block, night_channel_number, next_id) ==
    LET first == _get_first_x_minutes_of_programs_return_unused(
                    programs_left, whole_minutes(milliseconds_to_fill))
        padded == IF first.running_total < milliseconds_to_fill
                  THEN Append(first.programs,
                              OfflinePad(next_id,
                                  milliseconds_to_fill - first.running_total))
                  ELSE first.programs
    IN  [programs_to_add |->
            Append(padded, Redirect(next_id + 1, length_of_night_block,
                                    night_channel_number)),
         programs_left |-> first.leftover_programs]

\* the part of add_channel_at_night_alt that runs before its loop
night_alt_first_block(all_programs, time_until_night_block_start, length_of_night_block, night_channel_number) ==
    LET first == _get_first_x_minutes_of_programs(
                    all_programs, whole_minutes(time_until_night_block_start))
        block == night_block(all_programs, time_until_night_block_start,
                             length_of_night_block, night_channel_number,
                             FreshId(all_programs))
    IN  IF Len(first.programs) = Len(all_programs)
        THEN [block EXCEPT !.programs_left = <<>>]
        ELSE block

(***************************************************************************)
(* Helper calls.  A helper is a pure function of its arguments: the list   *)
(* is fixed by the initial state and every call draws its other arguments. *)
(***************************************************************************)
NoRet == [raised |-> FALSE]

\* a helper is called without a channel
NoChannel ==
    /\ self = None
    /\ server = None
    /\ call = None
    /\ pc = "none"
    /\ posts = 0

HelperInit(items) ==
    /\ media_items \in {WithIds(s) : s \in SeqsUpTo(items, MaxLen)}
    /\ arg = [minutes |-> 0]
    /\ op = "none"
    /\ ret = NoRet
    /\ NoChannel

\* ---- remove_duplicate_media_items ----
RatingKeys == {None, 0, 1, 2}

DedupItems ==
    {MovieItem(1, k, 60000) : k \in RatingKeys}
        \cup {RedirectItem(2, 60000), OfflinePad(0, 60000)}

InitDedup == HelperInit(DedupItems)

RemoveDuplicateMediaItems ==
    /\ op = "none"
    /\ op' = "remove_duplicate_media_items"
    /\ ret' = remove_duplicate_media_items(media_items)
    /\ UNCHANGED <<media_items, arg>>
    /\ UNCHANGED cvars

NextDedup == RemoveDuplicateMediaItems

SpecDedup == InitDedup /\ [][NextDedup]_vars

\* ---- time-box extraction ----
MaxMinutes == 3

TimeBoxDurations == {0, 30000, 60000, 90000, 120000}

TimeBoxItems == {MovieItem(1, 1, d) : d \in TimeBoxDurations}

InitTimeBox == HelperInit(TimeBoxItems)

GetFirstXMinutes ==
    \E minutes \in 0..MaxMinutes :
        /\ arg' = [minutes |-> minutes]
        /\ op' = "_get_first_x_minutes_of_programs"
        /\ ret' = _get_first_x_minutes_of_programs(media_items, minutes)
        /\ UNCHANGED media_items
        /\ UNCHANGED cvars

GetFirstXMinutesReturnUnused ==
    \E minutes \in 0..MaxMinutes :
        /\ arg' = [minutes |-> minutes]
        /\ op' = "_get_first_x_minutes_of_programs_return_unused"
        /\ ret' = _get_first_x_minutes_of_programs_return_unused(media_items, minutes)
        /\ UNCHANGED media_items
        /\ UNCHANGED cvars

NextTimeBox == GetFirstXMinutes \/ GetFirstXMinutesReturnUnused

SpecTimeBox == InitTimeBox /\ [][NextTimeBox]_vars

\* ---- flex time ----
MaxGridMinutes == 60

FlexDurations ==
    {0, 1, 59999, 60000, 600000, 1700000, 1800000, 1800001, 3600000,
     5400000, 7200000}

InitFlex ==
    /\ media_items = <<>>
    /\ arg = [item_time_milliseconds |-> 0, allowed_minutes_time_frame |-> 0,
              minute |-> 0]
    /\ op = "none"
    /\ ret = NoRet
    /\ NoChannel

GetNeededFlexTime ==
    /\ op = "none"
    /\ \E d \in FlexDurations, g \in 0..MaxGridMinutes, minute \in 0..59 :
        /\ arg' = [item_time_milliseconds |-> d,
                   allowed_minutes_time_frame |-> g, minute |-> minute]
        /\ op' = "get_needed_flex_time"
        /\ ret' = get_needed_flex_time(d, g, minute)
        /\ UNCHANGED media_items
        /\ UNCHANGED cvars

NextFlex == GetNeededFlexTime

SpecFlex == InitFlex /\ [][NextFlex]_vars

\* ---- sort_media_alphabetically ----
\* an episode's title differs from its show's title
AlphaItems ==
    {MovieItem(1, 1, 60000), MovieItem(2, 2, 90000),
     EpisodeItem(1, 3, 1, 1, 3, 30000), EpisodeItem(3, 1, 1, 1, 4, 45000),
     RedirectItem(2, 120000), OfflinePad(0, 15000)}

InitAlpha == HelperInit(AlphaItems)

SortMediaAlphabetically ==
    /\ op = "none"
    /\ op' = "sort_media_alphabetically"
    /\ ret' = sort_media_alphabetically(media_items)
    /\ UNCHANGED <<media_items, arg>>
    /\ UNCHANGED cvars

NextAlpha == SortMediaAlphabetically

SpecAlpha == InitAlpha /\ [][NextAlpha]_vars

\* ---- strategies that group episodes by show ----
\* season 0 holds a show's specials; an episode may lack its number
ShowItems ==
    {EpisodeItem(5, 1, se[1], se[2], 1, d) :
        se \in {<<0, 1>>, <<1, 1>>, <<1, 2>>}, d \in {60000, 120000}}
    \cup {EpisodeItem(5, 3, 1, 1, 2, d) : d \in {60000, 120000}}
    \cup {EpisodeItem(5, 3, 1, None, 3, 60000), MovieItem(2, 4, 60000),
          RedirectItem(2, 60000), OfflinePad(0, 60000)}

\* margin_of_correction, in hundredths
Margins == {0, 10, 50}

InitShows == HelperInit(ShowItems)

SortMediaBySeasonOrder ==
    /\ op = "none"
    /\ op' = "sort_media_by_season_order"
    /\ ret' = sort_media_by_season_order(media_items)
    /\ UNCHANGED <<media_items, arg>>
    /\ UNCHANGED cvars

BalanceShows ==
    /\ op = "none"
    /\ \E margin_pct \in Margins :
        /\ arg' = [margin_pct |-> margin_pct]
        /\ op' = "balance_shows"
        /\ ret' = balance_shows(media_items, margin_pct)
        /\ UNCHANGED media_items
        /\ UNCHANGED cvars

SortMediaByDuration ==
    /\ op = "none"
    /\ op' = "sort_media_by_duration"
    /\ ret' = sort_media_by_duration(media_items)
    /\ UNCHANGED <<media_items, arg>>
    /\ UNCHANGED cvars

NextShows == SortMediaBySeasonOrder \/ BalanceShows \/ SortMediaByDuration

SpecShows == InitShows /\ [][NextShows]_vars

\* ---- add_channel_at_night, add_channel_at_night_alt ----
MaxNightLen == 2

\* night blocks composed before the model stops following the loop
MaxCycles == 3

\* half an hour, an hour, a redirect of six hours, and 25 hours
NightItems ==
    {MovieItem(1, 1, 1800000), MovieItem(2, 2, 3600000),
     RedirectItem(2, 21600000), MovieItem(3, 3, 90000000)}

StartTimes == {-20, 2}

ChannelNumbers == {1, 2}

NightChannelNumbers == {2, 9}

HourArguments == {-1, 0, 6, 23, 24}

\* datetime.now().hour
NowHours == {3, 23}

\* hours_difference_in_timezone()
UtcOffsets == {0, 5}

\* adjust_datetime_for_timezone reads the two clocks some microseconds
\* apart, and the whole seconds between two datetimes are cut to an int:
\* a positive span may come out one second short
ClockSkews == {0, 1000}

NoCall ==
    [method |-> "none", night_channel_number |-> 0, start_hour |-> 0,
     end_hour |-> 0, length_of_night_block |-> 0,
     length_of_regular_block |-> 0, new_channel_start_time |-> 0,
     programs_left |-> <<>>, final_programs_to_add |-> <<>>]

InitNight ==
    /\ media_items = <<>>
    /\ arg = [minutes |-> 0]
    /\ op = "none"
    /\ ret = NoRet
    /\ \E lineup \in SeqsUpTo(NightItems, MaxNightLen), startTime \in StartTimes :
        /\ server = [channel |-> ChannelData(lineup, startTime),
                     channelNumbers |-> ChannelNumbers]
        /\ self = Channel(ChannelData(lineup, startTime))
    /\ call = NoCall
    /\ pc = "idle"
    /\ posts = 0

\* validation and the statements up to the loop
AddChannelAtNight ==
    /\ pc = "idle"
    /\ \E night_channel_number \in NightChannelNumbers,
          start_hour \in HourArguments, end_hour \in HourArguments,
          now_hour \in NowHours, utc_offset \in UtcOffsets,
          numbers_fetched \in BOOLEAN :
        LET channel_numbers ==
                IF numbers_fetched THEN server.channelNumbers ELSE {}
            arguments ==
                [NoCall EXCEPT !.method = "add_channel_at_night",
                               !.night_channel_number = night_channel_number,
                               !.start_hour = start_hour,
                               !.end_hour = end_hour]
            length_of_night_block ==
                get_milliseconds_between_two_hours(start_hour, end_hour)
        IN  IF add_channel_at_night_raises(night_channel_number, start_hour,
                                           end_hour, channel_numbers)
            THEN /\ call' = arguments
                 /\ pc' = "done"
                 /\ ret' = [raised |-> TRUE, value |-> FALSE]
            ELSE /\ call' =
                    [arguments EXCEPT
                        !.length_of_night_block = length_of_night_block,
                        !.length_of_regular_block =
                            (24 * 60 * 60 * 1000) - length_of_night_block,
                        !.new_channel_start_time =
                            (IF end_hour > now_hour THEN end_hour - 24
                             ELSE end_hour) + utc_offset,
                        !.programs_left = Channel_programs(self)]
                 /\ pc' = "night_loop"
                 /\ ret' = ret
    /\ UNCHANGED <<self, server, posts>>
    /\ UNCHANGED <<media_items, arg, op>>

\* validation and the statements up to the loop, the first block included
AddChannelAtNightAlt ==
    /\ pc = "idle"
    /\ \E night_channel_number \in NightChannelNumbers,
          start_hour \in HourArguments, end_hour \in HourArguments,
          utc_offset \in UtcOffsets, clock_skew \in ClockSkews,
          numbers_fetched \in BOOLEAN :
        LET channel_numbers ==
                IF numbers_fetched THEN server.channelNumbers ELSE {}
            arguments ==
                [NoCall EXCEPT !.method = "add_channel_at_night_alt",
                               !.night_channel_number = night_channel_number,
                               !.start_hour = start_hour,
                               !.end_hour = end_hour]
            length_of_night_block ==
                get_milliseconds_between_two_hours(start_hour, end_hour)
            whole_hours ==
                (start_hour - (self.startTime + utc_offset)) * 60 * 60 * 1000
            time_until_night_block_start ==
                IF whole_hours > 0 THEN whole_hours - clock_skew
                ELSE whole_hours
            first == night_alt_first_block(Channel_programs(self),
                        time_until_night_block_start, length_of_night_block,
                        night_channel_number)
        IN  IF add_channel_at_night_alt_raises(night_channel_number,
                    start_hour, end_hour, channel_numbers)
            THEN /\ call' = arguments
                 /\ pc' = "done"
                 /\ ret' = [raised |-> TRUE, value |-> FALSE]
            ELSE /\ call' =
                    [arguments EXCEPT
                        !.length_of_night_block = length_of_night_block,
                        !.length_of_regular_block =
                            (24 * 60 * 60 * 1000) - length_of_night_block,
                        !.programs_left = first.programs_left,
                        !.final_programs_to_add = first.programs_to_add]
                 /\ pc' = "night_loop"
                 /\ ret' = ret
    /\ UNCHANGED <<self, server, posts>>
    /\ UNCHANGED <<media_items, arg, op>>

NightBlocksComposed ==
    Cardinality({i \in DOMAIN call.final_programs_to_add :
                    call.final_programs_to_add[i].cls = "Redirect"})

\* one pass of "while programs_left"
NightLoop ==
    /\ pc = "night_loop"
    /\ call.programs_left # <<>>
    /\ NightBlocksComposed < MaxCycles
    /\ LET block == night_block(call.programs_left,
                        call.length_of_regular_block,
                        call.length_of_night_block,
                        call.night_channel_number,
                        FreshId(call.programs_left
                                    \o call.final_programs_to_add))
       IN  call' = [call EXCEPT
                        !.programs_left = block.programs_left,
                        !.final_programs_to_add = @ \o block.programs_to_add]
    /\ UNCHANGED <<pc, ret, self, server, posts>>
    /\ UNCHANGED <<media_items, arg, op>>

\* the statements after the loop: the lineup is replaced by what was composed
NightCommit ==
    /\ pc = "night_loop"
    /\ call.programs_left = <<>>
    /\ \E o1 \in UpdateOutcomes, o2 \in UpdateOutcomes, o3 \in UpdateOutcomes :
        LET st0 == [self |-> self, server |-> server, posts |-> posts,
                    ok |-> TRUE]
            st1 == IF call.method = "add_channel_at_night"
                   THEN Channel_update(st0,
                            [startTime |-> call.new_channel_start_time], o1)
                   ELSE st0
            st2 == IF call.final_programs_to_add # <<>>
                   THEN Channel_delete_all_programs(st1, o2)
                   ELSE [st1 EXCEPT !.ok = FALSE]
            st3 == IF st2.ok
                   THEN Channel_add_programs(st2,
                            call.final_programs_to_add, o3)
                   ELSE st2
        IN  /\ self' = st3.self
            /\ server' = st3.server
            /\ posts' = st3.posts
            /\ ret' = [raised |-> FALSE, value |-> st3.ok]
    /\ pc' = "done"
    /\ UNCHANGED call
    /\ UNCHANGED <<media_items, arg, op>>

NextNight ==
    AddChannelAtNight \/ AddChannelAtNightAlt \/ NightLoop \/ NightCommit

SpecNight == InitNight /\ [][NextNight]_vars

\* the method runs on: while programs are left the loop takes its next pass
SpecNightLive == SpecNight /\ WF_vars(NightLoop)

\* ---- Channel methods that replace the lineup ----
MaxLineupLen == 3

\* two seasons of show 1, an episode of show 3, a movie sharing a rating
\* key with an episode, a redirect and an offline pad
LineupItems ==
    {EpisodeItem(5, 1, 1, 1, 1, 1200000), EpisodeItem(6, 1, 2, 1, 2, 1500000),
     EpisodeItem(7, 3, 1, 1, 3, 1800000), MovieItem(2, 1, 5400000),
     RedirectItem(2, 3600000), OfflinePad(0, 600000)}

ShowNames == {1, 3}

SeasonNumbers == {None, 0, 1, 2}

\* the argument of replicate
HowManyTimes == {0, 1, 2}

\* start_every_x_minutes
PadGrids == {0, 10, 15, 20, 30, 60}

\* datetime.utcnow().minute
ClockMinutes == {10, 40}

\* the method called, its arguments, the lineup it read, the sequence it
\* computed, and what the server did with each request the method made
LineupCall(method, arguments, new_programs, outcomes) ==
    [method |-> method, arguments |-> arguments,
     all_programs |-> Channel_programs(self), new_programs |-> new_programs,
     outcomes |-> outcomes]

InitLineup ==
    /\ media_items = <<>>
    /\ arg = [minutes |-> 0]
    /\ op = "none"
    /\ ret = NoRet
    /\ \E lineup \in SeqsUpTo(LineupItems, MaxLineupLen) :
        /\ server = [channel |-> ChannelData(lineup, 0),
                     channelNumbers |-> ChannelNumbers]
        /\ self = Channel(ChannelData(lineup, 0))
    /\ call = None
    /\ pc = "idle"
    /\ posts = 0

\* the end of a method: what it returned and what it left behind
Return(method, arguments, new_programs, outcomes, st, raised) ==
    /\ call' = LineupCall(method, arguments, new_programs, outcomes)
    /\ self' = st.self
    /\ server' = st.server
    /\ posts' = st.posts
    /\ ret' = [raised |-> raised, value |-> ~raised /\ st.ok]
    /\ pc' = "done"
    /\ UNCHANGED <<media_items, arg, op>>

Started == [self |-> self, server |-> server, posts |-> posts, ok |-> TRUE]

DeleteShow ==
    /\ pc = "idle"
    /\ \E show_name \in ShowNames, season_number \in SeasonNumbers,
          o1 \in UpdateOutcomes, o2 \in UpdateOutcomes :
        LET result == Channel_delete_show(Started, show_name, season_number,
                                          o1, o2)
        IN  Return("delete_show",
                   [show_name |-> show_name, season_number |-> season_number],
                   delete_show_programs_to_add(Channel_programs(self),
                                               show_name, season_number),
                   <<o1, o2>>, result.st, result.raised)

\* a method that computes a sequence and replaces the lineup by it
ReplaceWith(method, arguments, new_programs) ==
    /\ pc = "idle"
    /\ \E o1 \in UpdateOutcomes, o2 \in UpdateOutcomes :
        Return(method, arguments, new_programs, <<o1, o2>>,
               replace_programs(Started, new_programs, o1, o2), FALSE)

SortProgramsAlphabetically ==
    ReplaceWith("sort_programs_alphabetically", <<>>,
                sort_media_alphabetically(Channel_programs(self)))

SortProgramsBySeasonOrder ==
    ReplaceWith("sort_programs_by_season_order", <<>>,
                sort_media_by_season_order(Channel_programs(self)))

SortProgramsByDuration ==
    ReplaceWith("sort_programs_by_duration", <<>>,
                sort_media_by_duration(Channel_programs(self)))

RemoveDuplicatePrograms ==
    ReplaceWith("remove_duplicate_programs", <<>>,
                remove_duplicate_media_items(Channel_programs(self)))

\* balance_shows raises before any request is made
BalancePrograms ==
    \E margin_pct \in Margins :
        LET sorted_programs ==
                balance_shows(Channel_programs(self), margin_pct)
        IN  IF sorted_programs.raised
            THEN /\ pc = "idle"
                 /\ Return("balance_programs", [margin_pct |-> margin_pct],
                           <<>>, <<>>, Started, TRUE)
            ELSE ReplaceWith("balance_programs", [margin_pct |-> margin_pct],
                             sorted_programs.value)

\* final_program_list holds every object how_many_times times
Replicate ==
    \E how_many_times \in HowManyTimes :
        ReplaceWith("replicate", [how_many_times |-> how_many_times],
                    Flatten([n \in 1..how_many_times |->
                                Channel_programs(self)]))

\* every call of get_needed_flex_time reads the clock; one call of
\* pad_times is taken to fall within one half hour
PadTimes ==
    /\ pc = "idle"
    /\ \E start_every_x_minutes \in PadGrids, minute \in ClockMinutes,
          o1 \in UpdateOutcomes, o2 \in UpdateOutcomes :
        LET arguments == [start_every_x_minutes |-> start_every_x_minutes,
                          minute |-> minute]
            st1 == Channel_delete_all_offline_times(Started, o1, o2)
            programs_and_pads ==
                pad_times_programs_and_pads(Channel_programs(st1.self),
                                            start_every_x_minutes, minute)
        IN  IF ~st1.ok
            THEN Return("pad_times", arguments, <<>>, <<o1, o2>>, st1, FALSE)
            ELSE IF programs_and_pads.raised
            THEN Return("pad_times", arguments, <<>>, <<o1, o2>>, st1, TRUE)
            ELSE \E o3 \in UpdateOutcomes, o4 \in UpdateOutcomes :
                    Return("pad_times", arguments, programs_and_pads.value,
                           <<o1, o2, o3, o4>>,
                           replace_programs(st1, programs_and_pads.value,
                                            o3, o4),
                           FALSE)

NextLineup ==
    \/ DeleteShow
    \/ SortProgramsAlphabetically
    \/ SortProgramsBySeasonOrder
    \/ SortProgramsByDuration
    \/ RemoveDuplicatePrograms
    \/ BalancePrograms
    \/ Replicate
    \/ PadTimes

SpecLineup == InitLineup /\ [][NextLineup]_vars

\* ---- Channel.delete_schedule ----
MaxScheduleLen == 2

InitSchedule ==
    /\ media_items = <<>>
    /\ arg = [minutes |-> 0]
    /\ op = "none"
    /\ ret = NoRet
    /\ \E lineup \in SeqsUpTo(LineupItems, MaxScheduleLen) :
        /\ server = [channel |-> ChannelData(lineup, 0),
                     channelNumbers |-> ChannelNumbers]
        /\ self = Channel(ChannelData(lineup, 0))
    /\ call = None
    /\ pc = "idle"
    /\ posts = 0

\* delete_schedule makes up to seven requests; it is followed statement
\* by statement
DeleteSchedule_OfflineTimes ==
    /\ pc = "idle"
    /\ \E o1 \in UpdateOutcomes, o2 \in UpdateOutcomes :
        LET st == Channel_delete_all_offline_times(Started, o1, o2)
        IN  /\ call' = LineupCall("delete_schedule", <<>>, <<>>, <<o1, o2>>)
            /\ self' = st.self
            /\ server' = st.server
            /\ posts' = st.posts
    /\ pc' = "delete_schedule_duplicates"
    /\ UNCHANGED <<media_items, arg, op, ret>>

\* "if self.remove_duplicate_programs():"
DeleteSchedule_Duplicates ==
    /\ pc = "delete_schedule_duplicates"
    /\ \E o3 \in UpdateOutcomes, o4 \in UpdateOutcomes :
        LET st == replace_programs(Started,
                    remove_duplicate_media_items(Channel_programs(self)),
                    o3, o4)
        IN  /\ call' = [call EXCEPT !.outcomes = @ \o <<o3, o4>>]
            /\ self' = st.self
            /\ server' = st.server
            /\ posts' = st.posts
            /\ pc' = IF st.ok THEN "delete_schedule_shuffle"
                     ELSE "delete_schedule_backup"
    /\ UNCHANGED <<media_items, arg, op, ret>>

\* "self.sort_programs_randomly()"
DeleteSchedule_Shuffle ==
    /\ pc = "delete_schedule_shuffle"
    /\ \E sorted_programs \in Shuffles(Channel_programs(self)),
          o5 \in UpdateOutcomes, o6 \in UpdateOutcomes :
        LET st == replace_programs(Started, sorted_programs, o5, o6)
        IN  /\ call' = [call EXCEPT !.outcomes = @ \o <<o5, o6>>]
            /\ self' = st.self
            /\ server' = st.server
            /\ posts' = st.posts
    /\ pc' = "delete_schedule_backup"
    /\ UNCHANGED <<media_items, arg, op, ret>>

\* "return self.update(scheduleBackup={})"
DeleteSchedule_Backup ==
    /\ pc = "delete_schedule_backup"
    /\ \E o7 \in UpdateOutcomes :
        LET st == Channel_update(Started, [scheduleBackup |-> "empty"], o7)
        IN  /\ call' = [call EXCEPT !.outcomes = Append(@, o7)]
            /\ self' = st.self
            /\ server' = st.server
            /\ posts' = st.posts
            /\ ret' = [raised |-> FALSE, value |-> st.ok]
    /\ pc' = "done"
    /\ UNCHANGED <<media_items, arg, op>>

NextSchedule ==
    \/ DeleteSchedule_OfflineTimes
    \/ DeleteSchedule_Duplicates
    \/ DeleteSchedule_Shuffle
    \/ DeleteSchedule_Backup

SpecSchedule == InitSchedule /\ [][NextSchedule]_vars

\* ---- add_program, add_programs, update_program, delete_program,
\* delete_all_programs, called one after the other ----
MaxCrudLen == 2

MaxCalls == 3

CrudItems ==
    {MovieItem(1, 1, 1200000), EpisodeItem(5, 3, 1, 1, 2, 1800000),
     RedirectItem(2, 3600000), OfflinePad(0, 600000)}

\* the duration keyword of update_program
NewDurations == {0, 900000}

InitCrud ==
    /\ media_items = <<>>
    /\ arg = [minutes |-> 0]
    /\ op = "none"
    /\ ret = NoRet
    /\ \E lineup \in SeqsUpTo(CrudItems, MaxCrudLen) :
        /\ server = [channel |-> ChannelData(lineup, 0),
                     channelNumbers |-> ChannelNumbers]
        /\ self = Channel(ChannelData(lineup, 0))
    /\ call = [method |-> "none", outcome |-> "none", returned |-> <<>>]
    /\ pc = "idle"
    /\ posts = 0

\* the end of a call: what it returned is added to what the calls before
\* it returned
CrudReturn(method, outcome, st, raised) ==
    /\ call' = [method |-> method, outcome |-> outcome,
                returned |-> Append(call.returned,
                                    IF raised THEN "raised"
                                    ELSE IF st.ok THEN "True" ELSE "False")]
    /\ self' = st.self
    /\ server' = st.server
    /\ posts' = st.posts
    /\ ret' = [raised |-> raised, value |-> ~raised /\ st.ok]
    /\ UNCHANGED pc
    /\ UNCHANGED <<media_items, arg, op>>

CrudCallable ==
    /\ pc = "idle"
    /\ call.method \in {"none", "add_program", "add_programs",
                         "update_program", "delete_program",
                         "delete_all_programs"}
    /\ Len(call.returned) < MaxCalls

AddProgram ==
    /\ CrudCallable
    /\ Len(self._data.programs) < MaxCrudLen
    /\ \E program \in CrudItems, outcome \in UpdateOutcomes :
        LET result == Channel_add_program(Started, program, outcome)
        IN  CrudReturn("add_program", outcome, result.st, result.raised)

AddPrograms ==
    /\ CrudCallable
    /\ \E programs \in SeqsUpTo(CrudItems, MaxCrudLen),
          outcome \in UpdateOutcomes :
        /\ Len(self._data.programs) + Len(programs) <= MaxCrudLen
        /\ IF programs = <<>>
           THEN CrudReturn("add_programs", outcome, Started, TRUE)
           ELSE CrudReturn("add_programs", outcome,
                    Channel_add_programs(Started, programs, outcome), FALSE)

UpdateProgram ==
    /\ CrudCallable
    /\ \E program \in CrudItems, duration \in NewDurations,
          outcome \in UpdateOutcomes :
        LET result == Channel_update_program(Started, program, duration,
                                             outcome)
        IN  CrudReturn("update_program", outcome, result.st, result.raised)

DeleteProgram ==
    /\ CrudCallable
    /\ \E program \in CrudItems, outcome \in UpdateOutcomes :
        LET result == Channel_delete_program(Started, program, outcome)
        IN  CrudReturn("delete_program", outcome, result.st, result.raised)

DeleteAllPrograms ==
    /\ CrudCallable
    /\ \E outcome \in UpdateOutcomes :
        CrudReturn("delete_all_programs", outcome,
                   Channel_delete_all_programs(Started, outcome), FALSE)

NextCrud ==
    \/ AddProgram
    \/ AddPrograms
    \/ UpdateProgram
    \/ DeleteProgram
    \/ DeleteAllPrograms

SpecCrud == InitCrud /\ [][NextCrud]_vars

\* ---- sort_media_cyclical_shuffle, sort_media_block_shuffle ----
MaxShuffleLen == 3

\* three episodes of show 1 in two seasons and a special of season 0, an
\* episode of show 3, a movie and an offline pad
ShuffleItems ==
    {EpisodeItem(5, 1, 1, 1, 1, 60000), EpisodeItem(6, 1, 1, 2, 2, 60000),
     EpisodeItem(7, 1, 2, 1, 3, 60000), EpisodeItem(8, 1, 0, 1, 4, 60000),
     EpisodeItem(5, 3, 1, 1, 5, 60000), MovieItem(2, 6, 60000),
     OfflinePad(0, 60000)}

BlockLengths == {1, 2}

\* the local variables of the two functions
NoShuffle ==
    [method |-> "none", block_length |-> 0, randomize |-> FALSE,
     total_item_count |-> 0, non_shows |-> <<>>, show_list |-> <<>>,
     index_list |-> <<>>, remaining_episode_count |-> 0,
     final_list |-> <<>>]

InitShuffle ==
    /\ media_items \in {WithIds(s) : s \in SeqsUpTo(ShuffleItems, MaxShuffleLen)}
    /\ arg = [minutes |-> 0]
    /\ op = "none"
    /\ ret = NoRet
    /\ self = None
    /\ server = None
    /\ call = NoShuffle
    /\ pc = "idle"
    /\ posts = 0

\* the statements up to the loop: the non-shows are shuffled and every
\* show's episodes are rotated by a random shift; show_list is indexed
\* from 1 where the code counts from 0
SortMediaCyclicalShuffle ==
    /\ pc = "idle"
    /\ LET show_dict == order_show_dict(make_show_dict(media_items))
           season_episode_order ==
               [i \in DOMAIN show_dict |-> EpisodesOf(show_dict[i].v)]
       IN  \E non_shows \in Shuffles(get_non_shows(media_items)),
              shift_index \in [DOMAIN show_dict -> 0..(MaxShuffleLen - 1)] :
            /\ \A i \in DOMAIN show_dict :
                    shift_index[i] <= Len(season_episode_order[i]) - 1
            /\ call' =
                [NoShuffle EXCEPT
                    !.method = "sort_media_cyclical_shuffle",
                    !.total_item_count = Len(media_items),
                    !.non_shows = non_shows,
                    !.show_list =
                        [i \in DOMAIN show_dict |->
                            rotate_items(season_episode_order[i],
                                         shift_index[i])],
                    !.index_list = [i \in DOMAIN show_dict |-> i],
                    !.remaining_episode_count =
                        Len(Flatten(season_episode_order))]
    /\ pc' = "cyclical_loop"
    /\ UNCHANGED <<media_items, arg, op, ret, self, server, posts>>

\* one pass of "while len(final_list) != total_item_count": a category of
\* size 0 is never drawn
CyclicalLoop ==
    /\ pc = "cyclical_loop"
    /\ Len(call.final_list) # call.total_item_count
    /\ \/ /\ call.remaining_episode_count # 0
          /\ \E random_index \in Range(call.index_list) :
                LET new_item == Head(call.show_list[random_index])
                    rest == Tail(call.show_list[random_index])
                IN  call' =
                        [call EXCEPT
                            !.show_list[random_index] = rest,
                            !.remaining_episode_count = @ - 1,
                            !.final_list = Append(@, new_item),
                            !.index_list =
                                IF Len(rest) = 0
                                THEN list_remove(@, random_index)
                                ELSE @]
       \/ /\ Len(call.non_shows) # 0
          /\ call' = [call EXCEPT
                        !.non_shows = Tail(@),
                        !.final_list = Append(@, Head(call.non_shows))]
    /\ UNCHANGED <<pc, media_items, arg, op, ret, self, server, posts>>

\* the loop ends when the count is reached or nothing is left to draw
CyclicalReturn ==
    /\ pc = "cyclical_loop"
    /\ \/ Len(call.final_list) = call.total_item_count
       \/ (call.remaining_episode_count = 0 /\ Len(call.non_shows) = 0)
    /\ op' = "sort_media_cyclical_shuffle"
    /\ ret' = [raised |-> FALSE, value |-> call.final_list]
    /\ pc' = "done"
    /\ UNCHANGED <<call, media_items, arg, self, server, posts>>

\* the statements up to the loops; show_list holds
\* condensed_show_dict['shows'], remaining_episode_count the target length
SortMediaBlockShuffle ==
    /\ pc = "idle"
    /\ \E block_length \in BlockLengths, randomize \in BOOLEAN :
        LET condensed_show_dict ==
                condense_show_dict(order_show_dict(make_show_dict(media_items)))
        IN  call' =
                [NoShuffle EXCEPT
                    !.method = "sort_media_block_shuffle",
                    !.block_length = block_length,
                    !.randomize = randomize,
                    !.non_shows = get_non_shows(media_items),
                    !.show_list = condensed_show_dict.shows,
                    !.remaining_episode_count = condensed_show_dict.count]
    /\ pc' = "block_loop"
    /\ UNCHANGED <<media_items, arg, op, ret, self, server, posts>>

\* randomize: one pass of "while len(final_show_list) < target_length"; a
\* show without episodes left is deleted when it is drawn
BlockLoopRandom ==
    /\ pc = "block_loop"
    /\ call.randomize
    /\ Len(call.final_list) < call.remaining_episode_count
    /\ \E random_show \in DOMAIN call.show_list,
          random_count \in 1..call.block_length :
        LET episodes == call.show_list[random_show].v
            pop == block_pop(episodes, random_count)
            deleted == SubSeq(call.show_list, 1, random_show - 1)
                        \o SubSeq(call.show_list, random_show + 1,
                                  Len(call.show_list))
        IN  call' =
                [call EXCEPT
                    !.final_list = @ \o pop.popped,
                    !.show_list =
                        IF Len(pop.popped) < random_count
                        THEN deleted
                        ELSE [@ EXCEPT ![random_show].v = pop.episodes]]
    /\ UNCHANGED <<pc, media_items, arg, op, ret, self, server, posts>>

\* not randomize: one pass of the while loop is one round over the shows
BlockLoopRound ==
    /\ pc = "block_loop"
    /\ ~call.randomize
    /\ Len(call.final_list) < call.remaining_episode_count
    /\ LET round == block_round(call.show_list, call.block_length, 1,
                                call.final_list)
       IN  call' = [call EXCEPT !.final_list = round.final_show_list,
                                !.show_list = round.shows]
    /\ UNCHANGED <<pc, media_items, arg, op, ret, self, server, posts>>

BlockReturn ==
    /\ pc = "block_loop"
    /\ ~(Len(call.final_list) < call.remaining_episode_count)
    /\ op' = "sort_media_block_shuffle"
    /\ ret' = [raised |-> FALSE,
               value |-> call.final_list \o call.non_shows]
    /\ pc' = "done"
    /\ UNCHANGED <<call, media_items, arg, self, server, posts>>

NextShuffle ==
    \/ SortMediaCyclicalShuffle
    \/ CyclicalLoop
    \/ CyclicalReturn
    \/ SortMediaBlockShuffle
    \/ BlockLoopRandom
    \/ BlockLoopRound
    \/ BlockReturn

SpecShuffle == InitShuffle /\ [][NextShuffle]_vars

\* the loops run on: a pass or the return is taken whenever one is due
SpecShuffleLive ==
    /\ SpecShuffle
    /\ WF_vars(BlockLoopRandom)
    /\ WF_vars(BlockReturn)

\* ---- parse_custom_shows_and_non_custom_shows ----
MaxParseLen == 4

\* customShowId of an entry: none, or one of two custom shows
CustomShowIds == {None, 1, 2}

ParseItems == {[id |-> 0, customShowId |-> c] : c \in CustomShowIds}

InitParse ==
    /\ media_items \in {WithIds(s) : s \in SeqsUpTo(ParseItems, MaxParseLen)}
    /\ arg = [minutes |-> 0]
    /\ op = "none"
    /\ ret = NoRet
    /\ NoChannel

ParseCustomShowsAndNonCustomShows ==
    /\ op = "none"
    /\ op' = "parse_custom_shows_and_non_custom_shows"
    /\ ret' = parse_custom_shows_and_non_custom_shows(media_items)
    /\ UNCHANGED <<media_items, arg>>
    /\ UNCHANGED cvars

NextParse == ParseCustomShowsAndNonCustomShows

SpecParse == InitParse /\ [][NextParse]_vars

\* ---- Schedule.add_time_slot, edit_time_slot, delete_time_slot ----
MaxSlots == 2

\* calls followed on one channel
MaxSlotCalls == 3

\* milliseconds since midnight: three full hours
SlotTimes == {0, 3600000, 7200000}

\* showId 1 is a program of the channel, showId 9 is not
SlotShowIds == {1, 9}

ScheduledableItems == {1}

NoSlotCall ==
    [method |-> "none", n |-> 0, occupied |-> FALSE, outcome |-> "none"]

\* the schedule the server holds has slots with distinct times
InitSlots ==
    /\ media_items = <<>>
    /\ arg = [minutes |-> 0]
    /\ op = "none"
    /\ ret = [raised |-> FALSE, value |-> FALSE]
    /\ \E times \in SeqsUpTo(SlotTimes, MaxSlots) :
        /\ \A i, j \in DOMAIN times : times[i] = times[j] => i = j
        /\ LET slots == [i \in DOMAIN times |->
                            [id |-> 0, time |-> times[i], showId |-> 1,
                             order |-> "shuffle"]]
           IN  /\ server = [slots |-> slots]
               /\ self = Schedule(slots)
    /\ call = NoSlotCall
    /\ pc = "idle"
    /\ posts = 0

SlotState == [self |-> self, server |-> server, ok |-> TRUE]

\* the end of a call
SlotReturn(method, occupied, outcome, result) ==
    /\ call' = [method |-> method, n |-> call.n + 1, occupied |-> occupied,
                outcome |-> outcome]
    /\ self' = result.st.self
    /\ server' = result.st.server
    /\ ret' = [raised |-> result.raised,
               value |-> ~result.raised /\ result.st.ok]
    /\ UNCHANGED <<media_items, arg, op, pc, posts>>

AddTimeSlot ==
    /\ call.n < MaxSlotCalls
    /\ \E time \in SlotTimes, showId \in SlotShowIds,
          order \in {"shuffle", "none"}, outcome \in ScheduleOutcomes :
        SlotReturn("add_time_slot",
            \E i \in DOMAIN self.slots : self.slots[i].time = time,
            outcome,
            Schedule_add_time_slot(SlotState, time, showId, order,
                                   ScheduledableItems, outcome))

\* the TimeSlot is one of schedule.slots
EditTimeSlot ==
    /\ call.n < MaxSlotCalls
    /\ \E t \in DOMAIN self.time_slots, time \in SlotTimes \cup {None},
          outcome \in ScheduleOutcomes :
        SlotReturn("edit_time_slot",
            /\ time # None
            /\ \E i, j \in DOMAIN self.slots :
                /\ i # j
                /\ self.slots[i].time = self.time_slots[t].time
                /\ self.slots[j].time = time,
            outcome,
            Schedule_edit_time_slot(SlotState, self.time_slots[t], time,
                                    outcome))

DeleteTimeSlot ==
    /\ call.n < MaxSlotCalls
    /\ \E t \in DOMAIN self.time_slots, outcome \in ScheduleOutcomes :
        SlotReturn("delete_time_slot", FALSE, outcome,
            Schedule_delete_time_slot(SlotState, self.time_slots[t],
                                      outcome))

NextSlots == AddTimeSlot \/ EditTimeSlot \/ DeleteTimeSlot

SpecSlots == InitSlots /\ [][NextSlots]_vars

\* ---- API.add_channel ----
\* calls followed in one process
MaxAddCalls == 2

\* a channel number that is free and one that is taken
AddNumbers == {2, 7}

\* a watermark width of 50 percent and one of 150 percent
AddWidths == {5000, 15000}

\* minutes of the hour at which a call is made
AddMinutes == {10, 40}

\* a lineup without programs and one with a program of five seconds
AddChannelPrograms ==
    {<<>>, <<[duration |-> 5000, isOffline |-> TRUE]>>}

\* the keyword arguments of a call: a key is passed or not
AddKwargs ==
    {[k \in keys |->
        CASE k = "groupTitle" -> "Mine"
          [] k = "enabled" -> TRUE
          [] k = "width" -> width
          [] OTHER -> number] :
     keys \in SUBSET {"groupTitle", "enabled", "width", "number"},
     width \in AddWidths, number \in AddNumbers}

NoAddCall ==
    [n |-> 0, programs |-> <<>>, handle_errors |-> TRUE, kwargs |-> <<>>,
     minute |-> 0, channel_numbers |-> {}, outcome |-> "none",
     sent |-> <<>>]

\* a process that has imported the library; the server has channels 1 and 2
InitAdd ==
    /\ media_items = <<>>
    /\ arg = [minutes |-> 0]
    /\ op = "none"
    /\ ret = [raised |-> FALSE, value |-> FALSE]
    /\ self = [CHANNEL_SETTINGS_DEFAULT |-> CHANNEL_SETTINGS_DEFAULT,
               WATERMARK_SETTINGS_DEFAULT |-> WATERMARK_SETTINGS_DEFAULT]
    /\ server = [channel_numbers |-> {1, 2}]
    /\ call = NoAddCall
    /\ pc = "idle"
    /\ posts = 0

AddChannel ==
    /\ call.n < MaxAddCalls
    /\ \E programs \in AddChannelPrograms, handle_errors \in BOOLEAN,
          kwargs \in AddKwargs, minute \in AddMinutes,
          outcome \in PutOutcomes :
        LET result == API_add_channel(
                        [templates |-> self,
                         channel_numbers |-> server.channel_numbers],
                        programs, handle_errors, kwargs, minute, outcome)
        IN  /\ self' = result.templates
            /\ server' = [channel_numbers |-> result.channel_numbers]
            /\ call' = [n |-> call.n + 1, programs |-> programs,
                        handle_errors |-> handle_errors, kwargs |-> kwargs,
                        minute |-> minute,
                        channel_numbers |-> server.channel_numbers,
                        outcome |-> outcome, sent |-> result.sent]
            /\ ret' = [raised |-> result.raised, value |-> result.value]
    /\ UNCHANGED <<media_items, arg, op, pc, posts>>

NextAdd == AddChannel

SpecAdd == InitAdd /\ [][NextAdd]_vars

(***************************************************************************)
(* Properties of the helpers.                                              *)
(***************************************************************************)
\* r lists objects of s (whose ids are their positions) in the order of s
OrderedSubsequence(r, s) ==
    /\ \A i \in DOMAIN r : r[i].id \in DOMAIN s /\ r[i] = s[r[i].id]
    /\ \A i, j \in DOMAIN r : i < j => r[i].id < r[j].id

IsPrefix(p, s) == Len(p) <= Len(s) /\ p = SubSeq(s, 1, Len(p))

RECURSIVE CumulativeDuration(_, _)
CumulativeDuration(s, k) ==
    IF k = 0 THEN 0 ELSE CumulativeDuration(s, k - 1) + s[k].duration

\* the length of the longest prefix of s that lasts at most ms
LongestFitting(s, ms) ==
    CHOOSE k \in 0..Len(s) :
        /\ CumulativeDuration(s, k) <= ms
        /\ \A j \in (k + 1)..Len(s) : CumulativeDuration(s, j) > ms

\* C1: remove_duplicate_media_items(S) holds no redirect and no two items
\* with the same non-empty ratingKey; it is a subsequence of S, and an item
\* with a non-empty ratingKey is kept exactly when it is the first item of S
\* with that key.
C1_RemoveDuplicates ==
    op = "remove_duplicate_media_items" =>
        /\ \A i \in DOMAIN ret : ret[i].type # "redirect"
        /\ \A i, j \in DOMAIN ret :
                i < j /\ Truthy(ret[i].ratingKey)
                    => ret[i].ratingKey # ret[j].ratingKey
        /\ OrderedSubsequence(ret, media_items)
        /\ \A n \in DOMAIN media_items :
                Truthy(media_items[n].ratingKey) =>
                    (n \in Ids(ret) <=>
                        \A m \in 1..(n - 1) :
                            media_items[m].ratingKey # media_items[n].ratingKey)

C1_Witness ==
    /\ op = "remove_duplicate_media_items"
    /\ \E n \in DOMAIN media_items : media_items[n].type = "redirect"
    /\ \E m, n \in DOMAIN media_items :
            /\ m < n
            /\ Truthy(media_items[m].ratingKey)
            /\ media_items[m].ratingKey = media_items[n].ratingKey
    /\ Len(ret) >= 2

\* C2: the prefix and the remainder of
\* _get_first_x_minutes_of_programs_return_unused are disjoint, together
\* they hold exactly the items of S, and the remainder keeps the order of S.
C2_PrefixRemainderPartition ==
    op = "_get_first_x_minutes_of_programs_return_unused" =>
        /\ Ids(ret.programs) \cap Ids(ret.leftover_programs) = {}
        /\ Range(ret.programs) \cup Range(ret.leftover_programs)
                = Range(media_items)
        /\ Len(ret.programs) + Len(ret.leftover_programs) = Len(media_items)
        /\ OrderedSubsequence(ret.leftover_programs, media_items)

C2_Witness ==
    /\ op = "_get_first_x_minutes_of_programs_return_unused"
    /\ Len(ret.programs) >= 1
    /\ Len(ret.leftover_programs) >= 2
    /\ \E i \in DOMAIN ret.leftover_programs :
            ret.leftover_programs[i].duration = ret.programs[1].duration

\* C3: the time-box extraction returns the longest prefix of S that lasts at
\* most minutes * 60000 ms and that prefix's duration; an item that would
\* overflow ends the prefix even when a later item would fit; when the first
\* item alone overflows the prefix is empty, the total 0, the remainder S.
C3_LongestFittingPrefix ==
    op \in {"_get_first_x_minutes_of_programs",
            "_get_first_x_minutes_of_programs_return_unused"} =>
        LET ms == arg.minutes * 60000
            n  == LongestFitting(media_items, ms)
        IN  /\ ret.programs = SubSeq(media_items, 1, n)
            /\ ret.running_total = CumulativeDuration(media_items, n)
            /\ (/\ op = "_get_first_x_minutes_of_programs_return_unused"
                /\ media_items # <<>>
                /\ media_items[1].duration > ms)
                    => /\ ret.programs = <<>>
                       /\ ret.running_total = 0
                       /\ ret.leftover_programs = media_items

C3_Witness ==
    /\ op = "_get_first_x_minutes_of_programs"
    /\ Len(ret.programs) >= 1
    /\ \E i \in (Len(ret.programs) + 2)..Len(media_items) :
            ret.running_total + media_items[i].duration <= arg.minutes * 60000

\* C4: a larger budget never shortens the prefix: from one call of
\* _get_first_x_minutes_of_programs to a call on the same list with at least
\* the same number of minutes, the first prefix is a prefix of the second.
C4_PrefixGrowsWithBudget ==
    [][(/\ op = "_get_first_x_minutes_of_programs"
        /\ op' = "_get_first_x_minutes_of_programs"
        /\ arg.minutes <= arg'.minutes)
            => IsPrefix(ret.programs, ret'.programs)]_vars

C4_Witness ==
    /\ op = "_get_first_x_minutes_of_programs"
    /\ arg.minutes = MaxMinutes
    /\ Len(ret.programs) < Len(media_items)
    /\ Len(ret.programs)
            > Len(_get_first_x_minutes_of_programs(media_items, 1).programs)
    /\ Len(_get_first_x_minutes_of_programs(media_items, 1).programs) >= 1

IsPermutation(r, s) ==
    /\ Len(r) = Len(s)
    /\ Ids(r) = Ids(s)
    /\ \A i \in DOMAIN r : r[i] = s[r[i].id]

\* C8: sort_media_alphabetically(S) is a permutation of S (so the durations
\* add up to the same total): first the items that have a title, in
\* ascending order of the show title for an episode and of the title for
\* any other item, items with equal keys in their order in S; then the
\* items without a title, in their order in S.
C8_AlphabeticalPermutation ==
    op = "sort_media_alphabetically" =>
        LET titled(x) == x.title # None
            key(x) == IF x.type = "episode" THEN x.showTitle ELSE x.title
        IN  /\ IsPermutation(ret, media_items)
            /\ SumDurations(ret) = SumDurations(media_items)
            /\ \A i, j \in DOMAIN ret :
                (i < j /\ titled(ret[j])) =>
                    /\ titled(ret[i])
                    /\ key(ret[i]) <= key(ret[j])
                    /\ key(ret[i]) = key(ret[j]) => ret[i].id < ret[j].id
            /\ \A i, j \in DOMAIN ret :
                (i < j /\ ~titled(ret[i]) /\ ~titled(ret[j]))
                    => ret[i].id < ret[j].id

C8_Witness ==
    /\ op = "sort_media_alphabetically"
    /\ Len(ret) = 4
    /\ ret[1].type = "episode" /\ ret[1].id = 4
    /\ ret[2].type = "movie" /\ ret[2].id = 1
    /\ ret[3].type = "movie" /\ ret[3].id = 3 /\ ret[3].title = ret[2].title
    /\ ret[4].title = None /\ ret[4].id = 2

\* the episodes the grouping holds: type episode with an episode number,
\* the last one written for each (show, season, episode)
GroupedIndexes(s) ==
    {i \in DOMAIN s :
        /\ s[i].type = "episode"
        /\ Truthy(s[i].episode)
        /\ \A j \in (i + 1)..Len(s) :
            ~(/\ s[j].type = "episode"
              /\ s[j].showTitle = s[i].showTitle
              /\ s[j].season = s[i].season
              /\ s[j].episode = s[i].episode)}

EpisodeBefore(x, y) ==
    \/ x.showTitle < y.showTitle
    \/ x.showTitle = y.showTitle /\ x.season < y.season
    \/ x.showTitle = y.showTitle /\ x.season = y.season /\ x.episode < y.episode

\* the grouped episodes in show, season, episode order
GroupedInOrder(s) ==
    LET E == GroupedIndexes(s)
    IN  [p \in 1..Cardinality(E) |->
            s[CHOOSE i \in E :
                Cardinality({j \in E : EpisodeBefore(s[j], s[i])}) = p - 1]]

\* C9: sort_media_by_season_order(S) is the grouped episodes by show title,
\* season and episode number, followed by the movies, tracks and redirects
\* of S in alphabetical order.
C9_SeasonOrderThenNonShows ==
    op = "sort_media_by_season_order" =>
        ret = GroupedInOrder(media_items)
                \o sort_media_alphabetically(
                    SelectSeq(media_items, LAMBDA x :
                        x.type \in {"movie", "track", "redirect"}))

\* C10: balance_shows keeps, of each show, exactly the longest prefix of its
\* episodes in season and episode order whose duration is at most
\* (1 + margin_of_correction) times the total duration of the shortest show.
C10_BalanceKeepsLongestPrefix ==
    (op = "balance_shows" /\ ~ret.raised) =>
        LET grouped == GroupedInOrder(media_items)
            shows == {grouped[i].showTitle : i \in DOMAIN grouped}
            of(show, s) == SelectSeq(s, LAMBDA x :
                                x.type = "episode" /\ x.showTitle = show)
            shortest == CHOOSE d \in {SumDurations(of(w, grouped)) : w \in shows} :
                            \A w \in shows : d <= SumDurations(of(w, grouped))
        IN  \A show \in shows :
                LET episodes == of(show, grouped)
                    n == CHOOSE k \in 0..Len(episodes) :
                            /\ CumulativeDuration(episodes, k) * 100
                                    <= shortest * (100 + arg.margin_pct)
                            /\ \A j \in (k + 1)..Len(episodes) :
                                CumulativeDuration(episodes, j) * 100
                                    > shortest * (100 + arg.margin_pct)
                IN  of(show, ret.value) = SubSeq(episodes, 1, n)

(***************************************************************************)
(* Properties of the channel at night.                                     *)
(***************************************************************************)
\* the objects of s that were taken from old, in the order of s
TakenFrom(s, old) == SelectSeq(s, LAMBDA x : x.id \in Ids(old))

\* the objects of s that are not in old, in the order of s
CreatedIn(s, old) == SelectSeq(s, LAMBDA x : x.id \notin Ids(old))

\* C6: for valid hours with start_hour # end_hour, add_channel_at_night has
\* night block + day block = 86400000 ms, the night block being the hours
\* from start_hour to end_hour, and every pass of its loop appends the day
\* segment it took from the head of the remaining programs, then at most
\* one offline pad, then exactly one new Redirect whose duration is the
\* night block and whose channel is the requested night channel.
C6_NightBlockAndOneRedirectPerCycle ==
    [][(call'.method = "add_channel_at_night" /\ pc' = "night_loop") =>
        /\ call'.start_hour \in 0..23 /\ call'.end_hour \in 0..23
        /\ call'.start_hour # call'.end_hour
        /\ call'.length_of_night_block
              = ((call'.end_hour - call'.start_hour) % 24) * 3600000
        /\ call'.length_of_night_block + call'.length_of_regular_block
              = 86400000
        /\ pc = "night_loop" =>
            LET before == call.final_programs_to_add
                after == call'.final_programs_to_add
                added == SubSeq(after, Len(before) + 1, Len(after))
                segment == TakenFrom(added, call.programs_left)
                created == CreatedIn(added, call.programs_left)
                redirect == added[Len(added)]
            IN  /\ IsPrefix(before, after)
                /\ added = segment \o created
                /\ segment = SubSeq(call.programs_left, 1, Len(segment))
                /\ call'.programs_left
                      = SubSeq(call.programs_left, Len(segment) + 1,
                               Len(call.programs_left))
                /\ Len(created) \in {1, 2}
                /\ redirect.cls = "Redirect" /\ redirect.type = "redirect"
                /\ redirect.duration = call.length_of_night_block
                /\ redirect.channel = call.night_channel_number
                /\ \A i \in 1..(Len(created) - 1) :
                        created[i].cls # "Redirect" /\ created[i].type # "redirect"
    ]_vars

\* two passes of the loop were made, one of them with flex time, and the
\* composed lineup was stored
C6_Witness ==
    /\ pc = "done"
    /\ call.method = "add_channel_at_night"
    /\ ret.raised = FALSE /\ ret.value = TRUE
    /\ NightBlocksComposed = 2
    /\ \E i \in DOMAIN call.final_programs_to_add :
            call.final_programs_to_add[i].type = "none"
    /\ server.channel.programs
          = [i \in DOMAIN call.final_programs_to_add |->
                ProgramData(call.final_programs_to_add[i])]

\* C7: add_channel_at_night and add_channel_at_night_alt raise when
\* start_hour or end_hour is outside 0..23, when start_hour = end_hour, or
\* when the night channel number is not a channel number of the server; the
\* call then ends with no update sent and with the lineup, the duration and
\* the startTime of the channel, on the client and on the server, unchanged.
C7_InvalidNightCallRaisesUntouched ==
    [][/\ pc = "done" => UNCHANGED vars
       /\ (/\ pc = "idle" /\ pc' # "idle"
           /\ \/ call'.start_hour \notin 0..23
              \/ call'.end_hour \notin 0..23
              \/ call'.start_hour = call'.end_hour
              \/ call'.night_channel_number \notin server.channelNumbers)
          => /\ call'.method \in {"add_channel_at_night",
                                  "add_channel_at_night_alt"}
             /\ pc' = "done"
             /\ ret'.raised
             /\ posts' = 0
             /\ self' = self
             /\ server' = server
    ]_vars

\* add_channel_at_night_alt was called on a channel with programs, with
\* valid equal hours and an existing night channel, and raised
C7_Witness ==
    /\ pc = "done"
    /\ call.method = "add_channel_at_night_alt"
    /\ call.start_hour = call.end_hour
    /\ call.start_hour \in 0..23
    /\ call.night_channel_number \in server.channelNumbers
    /\ ret.raised
    /\ posts = 0
    /\ self._program_data # <<>>

(***************************************************************************)
(* Properties of the methods that replace the lineup.                      *)
(***************************************************************************)
Entries(programs) == [i \in DOMAIN programs |-> ProgramData(programs[i])]

AllSucceeded == \A i \in DOMAIN call.outcomes : call.outcomes[i] = "ok"

\* C11: delete_show with a season number removes exactly the episodes of
\* the show in that season and keeps every other program in its original
\* order; without a season number it removes exactly all episodes of the
\* show.  Stated for calls all of whose server requests succeed.
C11_DeleteShowRemovesOnlyTheSeason ==
    (pc = "done" /\ call.method = "delete_show" /\ AllSucceeded) =>
        LET show_name == call.arguments.show_name
            season_number == call.arguments.season_number
            kept == SelectSeq(call.all_programs, LAMBDA program :
                        ~(/\ program.type = "episode"
                          /\ program.showTitle = show_name
                          /\ (season_number = None
                                \/ program.season = season_number)))
        IN  server.channel.programs = Entries(kept)

\* C12: starting from a channel whose duration is the sum of the durations
\* of its programs, after any sequence of add_program, add_programs,
\* update_program, delete_program and delete_all_programs calls that all
\* returned True, the duration of the channel, as the server stores it and
\* as the Channel object holds it, is the sum of the durations of the
\* programs of its lineup.
C12_DurationIsSumOfPrograms ==
    (\A i \in DOMAIN call.returned : call.returned[i] = "True") =>
        /\ server.channel.duration = SumDurations(server.channel.programs)
        /\ self._data.duration = SumDurations(self._data.programs)

\* C20: sort_media_by_duration(S) has no redirect and has every other item
\* of S, offline pads included, exactly once, in ascending order of
\* duration, items of equal duration in their order in S.
C20_DurationOrderKeepsAllButRedirects ==
    op = "sort_media_by_duration" =>
        /\ Len(ret) = Cardinality(Ids(ret))
        /\ Ids(ret) = {x.id : x \in {y \in Range(media_items) :
                                        y.type # "redirect"}}
        /\ \A i \in DOMAIN ret : ret[i] \in Range(media_items)
        /\ \A i, j \in DOMAIN ret :
            i < j => \/ ret[i].duration < ret[j].duration
                     \/ /\ ret[i].duration = ret[j].duration
                        /\ ret[i].id < ret[j].id

\* C13: replacing the lineup is all-or-nothing: when a method that computes
\* a new sequence has ended, whatever the server did with each request, the
\* lineup the server stores is the complete new sequence or the lineup
\* from before the call.
C13_ReplaceIsAllOrNothing ==
    (/\ pc = "done"
     /\ call.method \in {"sort_programs_alphabetically",
                          "sort_programs_by_season_order",
                          "sort_programs_by_duration",
                          "remove_duplicate_programs", "balance_programs",
                          "replicate", "pad_times"}
     /\ ~ret.raised) =>
        \/ server.channel.programs = Entries(call.all_programs)
        \/ server.channel.programs = Entries(call.new_programs)

\* C14: after pad_times(start_every_x_minutes = X) with X in
\* {10, 15, 20, 30, 60}, whatever the minute of the clock, the duration of
\* each program plus the offline pad that follows it is a multiple of X
\* minutes.  Stated for calls all of whose server requests succeed.
C14_PadTimesAlignsToX ==
    (/\ pc = "done" /\ call.method = "pad_times"
     /\ call.arguments.start_every_x_minutes \in {10, 15, 20, 30, 60}
     /\ ret.value /\ AllSucceeded) =>
        LET lineup == server.channel.programs
            X == call.arguments.start_every_x_minutes
            IsPad(x) == x.type = "none" /\ x.isOffline
        IN  \A i \in DOMAIN lineup :
                ~IsPad(lineup[i]) =>
                    LET pad == IF i < Len(lineup) /\ IsPad(lineup[i + 1])
                               THEN lineup[i + 1].duration ELSE 0
                    IN  (lineup[i].duration + pad) % (X * 60 * 1000) = 0

\* C15: a grid interval of 0 means hourly: for every item duration,
\* get_needed_flex_time(duration, 0) returns a pad, it does not fail, and
\* the pad is the one it returns for a grid of 60 minutes.
C15_ZeroGridMeansHourly ==
    (op = "get_needed_flex_time" /\ arg.allowed_minutes_time_frame = 0) =>
        /\ ~ret.raised
        /\ ret = get_needed_flex_time(arg.item_time_milliseconds, 60,
                                      arg.minute)

\* C16: after delete_schedule has returned True with every server request
\* succeeding, whatever the lineup was, the lineup holds no offline pad, no
\* redirect and no two programs with the same ratingKey, and the
\* scheduleBackup is empty.
C16_DeleteScheduleCleansLineup ==
    (/\ pc = "done" /\ call.method = "delete_schedule"
     /\ ret.value /\ AllSucceeded) =>
        LET lineup == server.channel.programs
        IN  /\ \A i \in DOMAIN lineup :
                    /\ ~(lineup[i].type = "none" /\ lineup[i].isOffline)
                    /\ lineup[i].type # "redirect"
            /\ \A i, j \in DOMAIN lineup :
                    lineup[i].ratingKey = lineup[j].ratingKey => i = j
            /\ server.channel.scheduleBackup = "empty"

\* C17: balance_shows(S) returns without error for every S, also for an S
\* without any episode, and every item of S that is not an episode is in
\* the output exactly once, behind every kept episode.
C17_BalanceKeepsNonShows ==
    op = "balance_shows" =>
        /\ ~ret.raised
        /\ \A i \in DOMAIN media_items :
            media_items[i].type # "episode" =>
                \E k \in DOMAIN ret.value :
                    /\ ret.value[k] = media_items[i]
                    /\ \A j \in DOMAIN ret.value :
                        /\ ret.value[j].id = media_items[i].id => j = k
                        /\ ret.value[j].type = "episode" => j < k

\* C19: the output of balance_shows is the kept episodes, grouped by show
\* with the shows in ascending order of show title wherever they first
\* stood in the input, and then the non-shows in ascending order of title.
C19_BalanceShowsAlphabetical ==
    (op = "balance_shows" /\ ~ret.raised) =>
        \E n \in 0..Len(ret.value) :
            /\ \A i \in 1..n : ret.value[i].type = "episode"
            /\ \A i, j \in 1..n :
                i < j => ret.value[i].showTitle <= ret.value[j].showTitle
            /\ \A i \in (n + 1)..Len(ret.value) :
                ret.value[i].type # "episode"
            /\ \A i, j \in (n + 1)..Len(ret.value) :
                (i < j /\ ret.value[j].title # None) =>
                    /\ ret.value[i].title # None
                    /\ ret.value[i].title <= ret.value[j].title

C21_KeylessItemsKept ==
    op = "remove_duplicate_media_items" =>
        \A n \in DOMAIN media_items :
            (media_items[n].type # "redirect" /\ ~Truthy(media_items[n].ratingKey))
                => \E k \in DOMAIN ret : ret[k] = media_items[n]

\* C22: sort_media_by_season_order(S) is a permutation of S, whatever S
\* holds (episodes of any season, episodes without a number, movies,
\* redirects, offline pads): every item of S is in the output exactly once
\* and the total duration is that of S.
C22_SeasonOrderIsPermutation ==
    op = "sort_media_by_season_order" =>
        /\ IsPermutation(ret, media_items)
        /\ SumDurations(ret) = SumDurations(media_items)

(***************************************************************************)
(* Properties of the shuffles.                                             *)
(***************************************************************************)
\* r is s read from some starting point round to the item before it
IsRotation(r, s) ==
    /\ Len(r) = Len(s)
    /\ \/ Len(s) = 0
       \/ \E k \in 0..(Len(s) - 1) :
            \A i \in DOMAIN r : r[i] = s[((i - 1 + k) % Len(s)) + 1]

\* the episodes of one show in s, in the order of s
EpisodesOfShow(s, show) ==
    SelectSeq(s, LAMBDA x : x.type = "episode" /\ x.showTitle = show)

ShowsIn(s) == {s[i].showTitle : i \in {j \in DOMAIN s : s[j].type = "episode"}}

\* C23: whatever the input and the random draws, the episodes of each show
\* in the output of sort_media_cyclical_shuffle, read in output order, are
\* a rotation of that show's episodes in ascending season and episode
\* order.
C23_CyclicalShuffleRotatesShows ==
    op = "sort_media_cyclical_shuffle" =>
        \A show \in ShowsIn(media_items) :
            IsRotation(EpisodesOfShow(ret.value, show),
                       EpisodesOfShow(GroupedInOrder(media_items), show))

\* the position in s of the first numbered episode of a show: shows are
\* entered in the show dict in this order
FirstOfShow(s, show) ==
    CHOOSE i \in DOMAIN s :
        /\ s[i].type = "episode" /\ Truthy(s[i].episode) /\ s[i].showTitle = show
        /\ \A j \in 1..(i - 1) :
            ~(s[j].type = "episode" /\ Truthy(s[j].episode)
                /\ s[j].showTitle = show)

\* the place of a grouped episode among the episodes of its show
PlaceInShow(s, x) ==
    LET episodes == EpisodesOfShow(GroupedInOrder(s), x.showTitle)
    IN  CHOOSE q \in DOMAIN episodes : episodes[q].id = x.id

\* x is emitted before y by rounds of block_length episodes per show
RoundBefore(s, block_length, x, y) ==
    LET rx == (PlaceInShow(s, x) - 1) \div block_length
        ry == (PlaceInShow(s, y) - 1) \div block_length
        fx == FirstOfShow(s, x.showTitle)
        fy == FirstOfShow(s, y.showTitle)
    IN  \/ rx < ry
        \/ rx = ry /\ fx < fy
        \/ rx = ry /\ fx = fy /\ PlaceInShow(s, x) < PlaceInShow(s, y)

\* C24: sort_media_block_shuffle without randomize and with block_length >= 1
\* works in rounds: in a round the shows are visited in insertion order and
\* a show with episodes left gives its next min(block_length, remaining)
\* episodes in season and episode order; the rounds go on until no show has
\* an episode left, every grouped episode is emitted exactly once, and the
\* non-shows follow at the end.
C24_BlockShuffleRounds ==
    (op = "sort_media_block_shuffle" /\ ~call.randomize
        /\ call.block_length >= 1) =>
        LET grouped == GroupedInOrder(media_items)
            n == Len(grouped)
        IN  /\ Len(ret.value) >= n
            /\ {ret.value[i].id : i \in 1..n} = Ids(grouped)
            /\ \A i, j \in 1..n :
                i < j => RoundBefore(media_items, call.block_length,
                                     ret.value[i], ret.value[j])
            /\ \A i \in (n + 1)..Len(ret.value) :
                /\ ret.value[i].id \notin Ids(grouped)
                /\ ret.value[i].type # "episode"

C26_EmptyNightIsNoOp ==
    [][(/\ pc = "night_loop" /\ pc' = "done"
        /\ call.method = "add_channel_at_night"
        /\ call.final_programs_to_add = <<>>) =>
        /\ ret'.raised = FALSE /\ ret'.value = FALSE
        /\ server'.channel.programs = server.channel.programs
        /\ server'.channel.duration = server.channel.duration
        /\ server'.channel.startTime = server.channel.startTime
        /\ Channel_programs(self') = Channel_programs(self)
        /\ self'.duration = self.duration
        /\ self'.startTime = self.startTime
    ]_vars

\* C27: in what add_channel_at_night builds, every cycle (the day programs
\* taken, the offline pad if any, the redirect) lasts exactly 86400000 ms:
\* every redirect it creates begins a day block after a whole number of
\* days and ends on a whole number of days.
C27_NightCyclesLastOneDay ==
    (call.method = "add_channel_at_night" /\ pc \in {"night_loop", "done"}) =>
        \A i \in DOMAIN call.final_programs_to_add :
            call.final_programs_to_add[i].cls = "Redirect" =>
                /\ CumulativeDuration(call.final_programs_to_add, i - 1)
                        % 86400000 = call.length_of_regular_block
                /\ CumulativeDuration(call.final_programs_to_add, i)
                        % 86400000 = 0

\* two cycles, the first filled by its programs alone, the second with
\* flex time, stored as the lineup
C27_Witness ==
    /\ pc = "done"
    /\ call.method = "add_channel_at_night"
    /\ ret.value = TRUE
    /\ Len(call.final_programs_to_add) = 5
    /\ call.final_programs_to_add[2].cls = "Redirect"
    /\ call.final_programs_to_add[4].type = "none"
    /\ call.final_programs_to_add[5].cls = "Redirect"
    /\ SumDurations(server.channel.programs) = 2 * 86400000

(***************************************************************************)
(* Properties of the custom shows.                                         *)
(***************************************************************************)
\* the positions at which an object of the result begins: an entry without
\* a customShowId, or the first entry of a run of one customShowId
RunStarts(s) ==
    {i \in DOMAIN s :
        \/ ~Truthy(s[i].customShowId)
        \/ i = 1
        \/ s[i - 1].customShowId # s[i].customShowId}

\* the last position of the run that begins at i
RunEnd(s, i) ==
    CHOOSE j \in i..Len(s) :
        /\ \A k \in i..j : s[k].customShowId = s[i].customShowId
        /\ (j < Len(s) => s[j + 1].customShowId # s[i].customShowId)

\* C28: parse_custom_shows_and_non_custom_shows loses no item: the result
\* holds, in input order, one object for every entry without a
\* customShowId and one CustomShow for every maximal run of consecutive
\* entries with one customShowId, the CustomShow holding the whole run.
C28_ParseLosesNoItem ==
    op = "parse_custom_shows_and_non_custom_shows" =>
        LET starts == RunStarts(media_items)
            nth(p) == CHOOSE i \in starts :
                        Cardinality({j \in starts : j < i}) = p - 1
        IN  /\ ~ret.raised
            /\ Len(ret.value) = Cardinality(starts)
            /\ \A p \in 1..Cardinality(starts) :
                LET i == nth(p) IN
                IF Truthy(media_items[i].customShowId)
                THEN /\ ret.value[p].cls = "CustomShow"
                     /\ ret.value[p].content
                            = SubSeq(media_items, i, RunEnd(media_items, i))
                ELSE /\ ret.value[p].cls = "Program"
                     /\ ret.value[p].data = media_items[i]

(***************************************************************************)
(* Properties of the schedule.                                             *)
(***************************************************************************)
DistinctTimes(slots) ==
    \A i, j \in DOMAIN slots : slots[i].time = slots[j].time => i = j

\* C29: on a schedule whose slots begin with distinct times, after any
\* add_time_slot, edit_time_slot and delete_time_slot calls no two slots of
\* the schedule, in the object or on the server, have the same time; a
\* call that asks for a second slot at an occupied time raises an error
\* and leaves the slots as they were.
C29_TimeSlotsKeepDistinctTimes ==
    /\ [](DistinctTimes(self.slots) /\ DistinctTimes(server.slots))
    /\ [][(call'.n = call.n + 1 /\ call'.occupied) =>
            /\ ret'.raised
            /\ self'.slots = self.slots
            /\ server'.slots = server.slots]_vars

(***************************************************************************)
(* Properties of add_channel.                                              *)
(***************************************************************************)
\* what the last call sends in a process that has made no call before
SentByFreshProcess ==
    API_add_channel(
        [templates |->
            [CHANNEL_SETTINGS_DEFAULT |-> CHANNEL_SETTINGS_DEFAULT,
             WATERMARK_SETTINGS_DEFAULT |-> WATERMARK_SETTINGS_DEFAULT],
         channel_numbers |-> call.channel_numbers],
        call.programs, call.handle_errors, call.kwargs, call.minute,
        call.outcome).sent

\* C30: what add_channel sends depends only on the call's arguments and the
\* server's channel numbers: it is what the same call sends in a process
\* that made no add_channel call before, and a setting the call does not
\* pass has the value of the unmodified CHANNEL_SETTINGS_DEFAULT and
\* WATERMARK_SETTINGS_DEFAULT.
C30_AddChannelSendsFromDefaults ==
    call.n > 0 =>
        /\ call.sent = SentByFreshProcess
        /\ \A i \in DOMAIN call.sent :
            /\ \A k \in DOMAIN CHANNEL_SETTINGS_DEFAULT
                        \ (DOMAIN call.kwargs \cup {"watermark"}) :
                    call.sent[i][k] = CHANNEL_SETTINGS_DEFAULT[k]
            /\ \A k \in DOMAIN WATERMARK_SETTINGS_DEFAULT
                        \ DOMAIN call.kwargs :
                    call.sent[i].watermark[k] = WATERMARK_SETTINGS_DEFAULT[k]

====
